---- MODULE Spec2Model ----
(***************************************************************************)
(* Manifest partitioning of k8s.io/helm/pkg/manifest (Partition and the    *)
(* hook classifier manifestFile.sort), and the readiness predicates of     *)
(* k8s.io/helm/pkg/kube with the wait that polls them.                     *)
(*                                                                         *)
(* Representation.  A Go string is a sequence of symbols; a symbol is an   *)
(* atomic piece of text (a TLA+ string) such as "/", ",", " ", a digit or  *)
(* a whole word ("pre-install", "NOTES.txt").  The string functions of the *)
(* standard library (TrimSpace, Split, ToLower, HasPrefix, HasSuffix,      *)
(* path.Base, path.Dir, strconv.Atoi) work symbol by symbol exactly as     *)
(* the originals work byte by byte.                                        *)
(*                                                                         *)
(* The text of a rendered file is a sequence of tokens: white space, the   *)
(* document separator "---", a block of YAML (a mapping, given by the      *)
(* head fields it holds) or a block of text that is not a YAML mapping.    *)
(***************************************************************************)
EXTENDS Integers, Sequences, FiniteSets, TLC

VARIABLES files, sort, pc, todo, result, notes, ret, processed, prev,
          pods, svc, vols, ready,
          targets, pollInterval, deadline, clock, tick, fetched, passed, outcome,
          flat,
          Rels, Opts, RenderManifests, call, resp

\* the arguments, locals and results of Partition
partitionVars == <<files, sort, pc, todo, result, notes, ret, processed, prev>>

\* the lists handed to podsReady, servicesReady and volumesReady and what
\* these returned
readyVars == <<pods, svc, vols, ready>>

\* the arguments of the wait, its clock, what it has fetched and its outcome
waitVars == <<targets, pollInterval, deadline, clock, tick, fetched, passed, outcome>>

\* the buffer that FlattenManifests returned
flattenVars == <<flat>>

\* the FakeClient (its releases and its options), the call made on it and
\* what the call returned
clientVars == <<Rels, Opts, RenderManifests, call, resp>>

vars == <<partitionVars, readyVars, waitVars, flattenVars, clientVars>>

----------------------------------------------------------------------------
(* Bounds of the model.                                                    *)

\* files in the file map handed to Partition
MaxFiles == 2
\* documents in the file map, all files together
MaxDocs == 2
\* comma-separated tokens in a hook-type or delete-policy annotation value
MaxTokens == 2
\* documents in the file map when it holds manifest files only
MaxManifestDocs == 3

----------------------------------------------------------------------------
(* Strings.                                                                *)

Space == {" ", "\n"}

\* strings.TrimSpace: the string without its leading and trailing white space
TrimSpace(s) ==
    LET keep == {i \in 1..Len(s) : s[i] \notin Space}
    IN  IF keep = {} THEN <<>>
        ELSE LET lo == CHOOSE i \in keep : \A j \in keep : i <= j
                 hi == CHOOSE i \in keep : \A j \in keep : j <= i
             IN  SubSeq(s, lo, hi)

\* strings.ToLower on one symbol: the upper-case words of the alphabet used
LowerSym(c) ==
    CASE c = "PRE-INSTALL" -> "pre-install"
      [] c = "Post-Install" -> "post-install"
      [] c = "Hook-Succeeded" -> "hook-succeeded"
      [] c = "BOGUS" -> "bogus"
      [] OTHER -> c

\* strings.ToLower
ToLower(s) == [i \in 1..Len(s) |-> LowerSym(s[i])]

\* strings.Split(s, sep) for a one-symbol separator: the pieces between the
\* separators, n separators giving n + 1 pieces (so Split("", ",") = [""])
RECURSIVE Split(_, _)
Split(s, sep) ==
    LET at == {i \in 1..Len(s) : s[i] = sep}
    IN  IF at = {} THEN <<s>>
        ELSE LET i == CHOOSE k \in at : \A j \in at : k <= j
             IN  <<SubSeq(s, 1, i - 1)>> \o Split(SubSeq(s, i + 1, Len(s)), sep)

\* strings.HasPrefix
HasPrefix(s, p) == Len(p) <= Len(s) /\ SubSeq(s, 1, Len(p)) = p

\* strings.HasSuffix
HasSuffix(s, p) == Len(p) <= Len(s) /\ SubSeq(s, Len(s) - Len(p) + 1, Len(s)) = p

\* s without its trailing slashes
RECURSIVE StripSlashes(_)
StripSlashes(s) ==
    IF s # <<>> /\ s[Len(s)] = "/" THEN StripSlashes(SubSeq(s, 1, Len(s) - 1)) ELSE s

\* index of the last slash of s, 0 when it has none
LastSlash(s) ==
    LET at == {i \in 1..Len(s) : s[i] = "/"}
    IN  IF at = {} THEN 0 ELSE CHOOSE i \in at : \A j \in at : j <= i

\* path.Base: the last element of the path; "." for the empty path, "/" for
\* a path of slashes only
Base(p) ==
    IF p = <<>> THEN <<".">>
    ELSE LET q == StripSlashes(p)
         IN  IF q = <<>> THEN <<"/">>
             ELSE SubSeq(q, LastSlash(q) + 1, Len(q))

\* path.Dir: all but the last element of the path, cleaned (path.Clean on
\* paths without "." and ".." elements and without doubled slashes: the
\* trailing slash goes, the root stays "/", the empty path becomes ".")
Dir(p) ==
    LET d == SubSeq(p, 1, LastSlash(p))
        q == StripSlashes(d)
    IN  IF d = <<>> THEN <<".">>
        ELSE IF q = <<>> THEN <<"/">>
        ELSE q

----------------------------------------------------------------------------
(* strconv.Atoi followed by the conversion int32(hw), for a 64-bit int.    *)

Digit == {"0", "1", "2", "3", "4", "5", "6", "7", "8", "9"}

DigitVal(c) ==
    CASE c = "0" -> 0 [] c = "1" -> 1 [] c = "2" -> 2 [] c = "3" -> 3
      [] c = "4" -> 4 [] c = "5" -> 5 [] c = "6" -> 6 [] c = "7" -> 7
      [] c = "8" -> 8 [] c = "9" -> 9

\* the sign the string starts with, if any, is negative
IsNeg(s) == s # <<>> /\ s[1] = "-"

\* the string after its sign
Unsigned(s) == IF s # <<>> /\ s[1] \in {"+", "-"} THEN Tail(s) ELSE s

\* the digits without their leading zeros
RECURSIVE StripZeros(_)
StripZeros(d) == IF Len(d) > 1 /\ d[1] = "0" THEN StripZeros(Tail(d)) ELSE d

\* a < b for two digit strings of the same length
RECURSIVE DigitsLess(_, _)
DigitsLess(a, b) ==
    IF a = <<>> THEN FALSE
    ELSE IF a[1] # b[1] THEN DigitVal(a[1]) < DigitVal(b[1])
    ELSE DigitsLess(Tail(a), Tail(b))

\* 2^63, the first magnitude a 64-bit int cannot hold
Cutoff64 == <<"9","2","2","3","3","7","2","0","3","6","8","5","4","7","7","5","8","0","8">>

\* Atoi's syntax check: an optional sign, then one digit or more
AtoiSyntaxOK(s) ==
    /\ Unsigned(s) # <<>>
    /\ \A i \in 1..Len(Unsigned(s)) : Unsigned(s)[i] \in Digit

\* Atoi's range check: the magnitude is below 2^63, or is 2^63 and negative
AtoiRangeOK(s) ==
    LET m == StripZeros(Unsigned(s))
    IN  \/ Len(m) < Len(Cutoff64)
        \/ /\ Len(m) = Len(Cutoff64)
           /\ DigitsLess(m, Cutoff64) \/ (IsNeg(s) /\ m = Cutoff64)

\* Atoi returns no error
AtoiOK(s) == AtoiSyntaxOK(s) /\ AtoiRangeOK(s)

Half == 65536

\* the magnitude of a digit string modulo 2^32, as two 16-bit halves <<hi, lo>>
RECURSIVE Mod32(_, _)
Mod32(d, acc) ==
    IF d = <<>> THEN acc
    ELSE LET lo == acc[2] * 10 + DigitVal(d[1])
             hi == acc[1] * 10 + (lo \div Half)
         IN  Mod32(Tail(d), <<hi % Half, lo % Half>>)

\* the two's complement of <<hi, lo>> modulo 2^32
Neg32(h) ==
    IF h[2] = 0 THEN <<(Half - h[1]) % Half, 0>>
    ELSE <<Half - 1 - h[1], Half - h[2]>>

\* the int32 that has the bits <<hi, lo>>
Signed32(h) ==
    IF h[1] >= Half \div 2 THEN (h[1] - Half) * Half + h[2]
    ELSE h[1] * Half + h[2]

\* int32(n) for the int n that Atoi returns for s: n modulo 2^32, signed
AtoiInt32(s) ==
    LET mag == Mod32(Unsigned(s), <<0, 0>>)
    IN  Signed32(IF IsNeg(s) THEN Neg32(mag) ELSE mag)

----------------------------------------------------------------------------
(* Tables of the packages hooks and manifest (kind_sorter).                *)

\* hooks.HookAnno, hooks.HookWeightAnno, hooks.HookDeleteAnno
HookAnno == "helm.sh/hook"
HookWeightAnno == "helm.sh/hook-weight"
HookDeleteAnno == "helm.sh/hook-delete-policy"

\* hooks.Events: hook-type name -> release.Hook_Event
Events ==
    (<<"pre-install">> :> "PRE_INSTALL") @@ (<<"post-install">> :> "POST_INSTALL")
    @@ (<<"pre-delete">> :> "PRE_DELETE") @@ (<<"post-delete">> :> "POST_DELETE")
    @@ (<<"pre-upgrade">> :> "PRE_UPGRADE") @@ (<<"post-upgrade">> :> "POST_UPGRADE")

\* hooks.DeletePolices: delete-policy name -> release.Hook_DeletePolicy
DeletePolices ==
    (<<"hook-succeeded">> :> "SUCCEEDED") @@ (<<"hook-failed">> :> "FAILED")
    @@ (<<"before-hook-creation">> :> "BEFORE_HOOK_CREATION")

\* the two values of SortOrder
InstallOrder == "InstallOrder"
UninstallOrder == "UninstallOrder"
SortOrders == {InstallOrder, UninstallOrder}

\* the kinds with a priority, lowest first (an excerpt of the kind table)
KindOrder == <<"Namespace", "Secret", "ConfigMap", "Service", "Pod", "Deployment">>

KnownKinds == {KindOrder[i] : i \in 1..Len(KindOrder)}

\* the priority of a kind: its place in the table; a kind the table does not
\* hold comes after all that it holds
Priority(kind) ==
    IF kind \in KnownKinds THEN CHOOSE i \in 1..Len(KindOrder) : KindOrder[i] = kind
    ELSE Len(KindOrder) + 1

\* manifest a sorts before manifest b: by priority, the comparison reversed
\* for UninstallOrder
KindLess(a, b, order) ==
    IF order = InstallOrder THEN Priority(a.Head.Kind) < Priority(b.Head.Kind)
    ELSE Priority(a.Head.Kind) > Priority(b.Head.Kind)

\* x put into the sorted sequence s behind every element it does not precede
RECURSIVE InsertByKind(_, _, _)
InsertByKind(x, s, order) ==
    IF s = <<>> THEN <<x>>
    ELSE IF KindLess(x, s[Len(s)], order)
         THEN Append(InsertByKind(x, SubSeq(s, 1, Len(s) - 1), order), s[Len(s)])
         ELSE Append(s, x)

\* sortByKind: a stable sort of the manifests by the priority of their kind
RECURSIVE sortByKind(_, _)
sortByKind(manifests, order) ==
    IF manifests = <<>> THEN <<>>
    ELSE InsertByKind(manifests[Len(manifests)],
                      sortByKind(SubSeq(manifests, 1, Len(manifests) - 1), order), order)

----------------------------------------------------------------------------
(* Texts, documents and their heads.                                       *)

\* the tokens of a rendered text
WsTok == [t |-> "ws", head |-> <<>>]
SepTok == [t |-> "sep", head |-> <<>>]
TextTok == [t |-> "text", head |-> <<>>]
YamlTok(kind, metadata) == [t |-> "yaml", head |-> <<[Kind |-> kind, Metadata |-> metadata]>>]

\* a metadata block: its name and its annotations (<<>> when it has none)
Meta(name, annotations) == <<[Name |-> name, Annotations |-> annotations]>>

\* strings.TrimSpace on a text
TrimText(c) ==
    LET keep == {i \in 1..Len(c) : c[i].t # "ws"}
    IN  IF keep = {} THEN <<>>
        ELSE LET lo == CHOOSE i \in keep : \A j \in keep : i <= j
                 hi == CHOOSE i \in keep : \A j \in keep : j <= i
             IN  SubSeq(c, lo, hi)

\* the pieces of a text between its separators
RECURSIVE SplitText(_)
SplitText(c) ==
    LET at == {i \in 1..Len(c) : c[i].t = "sep"}
    IN  IF at = {} THEN <<c>>
        ELSE LET i == CHOOSE k \in at : \A j \in at : k <= j
             IN  <<SubSeq(c, 1, i - 1)>> \o SplitText(SubSeq(c, i + 1, Len(c)))

\* util.SplitManifests: the documents of a text, each trimmed, the empty ones
\* left out (the map "manifest-<n>" -> document, here in the order of the text)
SplitManifests(bigFile) ==
    LET pieces == SplitText(TrimText(bigFile))
        trimmed == [i \in 1..Len(pieces) |-> TrimText(pieces[i])]
    IN  SelectSeq(trimmed, LAMBDA d : d # <<>>)

\* the zero value of util.SimpleHead
EmptyHead == [Kind |-> "", Metadata |-> <<>>]

\* the head that the YAML blocks of a document give: a later block's key
\* replaces an earlier block's
RECURSIVE MergeHeads(_, _)
MergeHeads(blocks, acc) ==
    IF blocks = <<>> THEN acc
    ELSE LET h == blocks[1].head[1]
         IN  MergeHeads(Tail(blocks),
                 [Kind |-> IF h.Kind # "" THEN h.Kind ELSE acc.Kind,
                  Metadata |-> IF h.Metadata # <<>> THEN h.Metadata ELSE acc.Metadata])

\* yaml.Unmarshal([]byte(m), &entry): an error for a document holding text
\* that is no YAML mapping, otherwise the head
Unmarshal(m) ==
    IF \E i \in 1..Len(m) : m[i].t = "text"
    THEN [err |-> TRUE, entry |-> EmptyHead]
    ELSE [err |-> FALSE,
          entry |-> MergeHeads(SelectSeq(m, LAMBDA k : k.t = "yaml"), EmptyHead)]

\* entry.Metadata.Annotations, a nil map read as the empty one
Annotations(entry) ==
    IF entry.Metadata = <<>> \/ entry.Metadata[1].Annotations = <<>> THEN <<>>
    ELSE entry.Metadata[1].Annotations[1]

\* a Go map read: the value under the key, "" when the key is absent
MapGet(mp, key) == IF key \in DOMAIN mp THEN mp[key] ELSE <<>>

----------------------------------------------------------------------------
(* The hook classifier.                                                    *)

hasAnyAnnotation(entry) ==
    ~ \/ entry.Metadata = <<>>
      \/ entry.Metadata[1].Annotations = <<>>
      \/ Cardinality(DOMAIN entry.Metadata[1].Annotations[1]) = 0

calculateHookWeight(entry) ==
    LET hws == MapGet(Annotations(entry), HookWeightAnno)
    IN  IF AtoiOK(hws) THEN AtoiInt32(hws) ELSE 0

\* ResolveEvents with a token that hooks.Events does not hold passed over,
\* as an unknown delete policy is
RECURSIVE ResolveEventsSkipUnknown(_, _)
ResolveEventsSkipUnknown(tokens, events) ==
    IF tokens = <<>> THEN [Events |-> events, isUnknownHook |-> FALSE]
    ELSE LET hookType == ToLower(TrimSpace(tokens[1]))
         IN  ResolveEventsSkipUnknown(Tail(tokens),
                 IF hookType \in DOMAIN Events THEN Append(events, Events[hookType])
                 ELSE events)

\* the loop over strings.Split(hookTypes, ","): the events of the tokens up to
\* the first that hooks.Events does not hold, and whether there is such a token
RECURSIVE ResolveEvents(_, _)
ResolveEvents(tokens, events) ==
    IF tokens = <<>> THEN [Events |-> events, isUnknownHook |-> FALSE]
    ELSE LET hookType == ToLower(TrimSpace(tokens[1]))
         IN  IF hookType \notin DOMAIN Events
             THEN [Events |-> events, isUnknownHook |-> TRUE]
             ELSE ResolveEvents(Tail(tokens), Append(events, Events[hookType]))

\* the function handed to operateAnnotationValues: the policy of the value is
\* appended when hooks.DeletePolices holds the value
AppendPolicy(policies, value) ==
    IF value \in DOMAIN DeletePolices THEN Append(policies, DeletePolices[value])
    ELSE policies

\* OperateTokens that ends at the first value hooks.DeletePolices does not
\* hold, as the loop over the hook types does
RECURSIVE OperateTokensUntilUnknown(_, _)
OperateTokensUntilUnknown(tokens, policies) ==
    IF tokens = <<>> THEN policies
    ELSE IF ToLower(TrimSpace(tokens[1])) \notin DOMAIN DeletePolices THEN policies
    ELSE OperateTokensUntilUnknown(Tail(tokens),
             AppendPolicy(policies, ToLower(TrimSpace(tokens[1]))))

RECURSIVE OperateTokens(_, _)
OperateTokens(tokens, policies) ==
    IF tokens = <<>> THEN policies
    ELSE OperateTokens(Tail(tokens), AppendPolicy(policies, ToLower(TrimSpace(tokens[1]))))

\* operateAnnotationValues(entry, hooks.HookDeleteAnno, ...) on the empty list
operateAnnotationValues(entry) ==
    IF HookDeleteAnno \in DOMAIN Annotations(entry)
    THEN OperateTokens(Split(Annotations(entry)[HookDeleteAnno], ","), <<>>)
    ELSE <<>>

\* Manifest{Name: file.path, Content: m, Head: &entry}
Manifest(path, m, entry) == [Name |-> path, Content |-> m, Head |-> entry]

\* the release.Hook of a document, its events and policies resolved
Hook(path, m, entry, events) ==
    [Name |-> IF entry.Metadata = <<>> THEN <<>> ELSE entry.Metadata[1].Name,
     Kind |-> entry.Kind,
     Path |-> path,
     Manifest |-> m,
     Events |-> events,
     Weight |-> calculateHookWeight(entry),
     DeletePolicies |-> operateAnnotationValues(entry)]

NoError == <<>>

\* fmt.Errorf("YAML parse error on %s: %s", file.path, err)
ParseError(path) == <<"YAML parse error on", path>>

\* SortEntry with the second append to result.generic forgotten: a document
\* with annotations but no hook-type key is dropped
SortEntryDropsUnhooked(path, m, res) ==
    LET u == Unmarshal(m)
        entry == u.entry
    IN  IF u.err THEN [res EXCEPT !.err = ParseError(path)]
        ELSE IF ~hasAnyAnnotation(entry)
        THEN [res EXCEPT !.generic = Append(@, Manifest(path, m, entry))]
        ELSE IF HookAnno \notin DOMAIN Annotations(entry)
        THEN res
        ELSE LET r == ResolveEvents(Split(Annotations(entry)[HookAnno], ","), <<>>)
             IN  IF r.isUnknownHook THEN res
                 ELSE [res EXCEPT !.hooks = Append(@, Hook(path, m, entry, r.Events))]

\* SortEntry that takes a hook without events for no hook at all, and so
\* drops nothing but lets the empty token pass
SortEntryEmptyToken(path, m, res) ==
    LET u == Unmarshal(m)
        entry == u.entry
    IN  IF u.err THEN [res EXCEPT !.err = ParseError(path)]
        ELSE IF ~hasAnyAnnotation(entry)
        THEN [res EXCEPT !.generic = Append(@, Manifest(path, m, entry))]
        ELSE IF HookAnno \notin DOMAIN Annotations(entry)
        THEN [res EXCEPT !.generic = Append(@, Manifest(path, m, entry))]
        ELSE LET tokens == SelectSeq(Split(Annotations(entry)[HookAnno], ","),
                                     LAMBDA t : TrimSpace(t) # <<>>)
                 r == ResolveEvents(tokens, <<>>)
             IN  IF r.isUnknownHook THEN res
                 ELSE [res EXCEPT !.hooks = Append(@, Hook(path, m, entry, r.Events))]

\* one round of the loop of manifestFile.sort: document m of the file at path
\* is put into res as a generic manifest, as a hook, or not at all
SortEntry(path, m, res) ==
    LET u == Unmarshal(m)
        entry == u.entry
    IN  IF u.err THEN [res EXCEPT !.err = ParseError(path)]
        ELSE IF ~hasAnyAnnotation(entry)
        THEN [res EXCEPT !.generic = Append(@, Manifest(path, m, entry))]
        ELSE IF HookAnno \notin DOMAIN Annotations(entry)
        THEN [res EXCEPT !.generic = Append(@, Manifest(path, m, entry))]
        ELSE LET r == ResolveEvents(Split(Annotations(entry)[HookAnno], ","), <<>>)
             IN  IF r.isUnknownHook THEN res
                 ELSE [res EXCEPT !.hooks = Append(@, Hook(path, m, entry, r.Events))]

\* manifestFile.sort over the entries in the order given: the loop ends at the
\* first document that does not parse; done counts the documents it took up
RECURSIVE manifestFile_sort(_, _, _)
manifestFile_sort(path, entries, res) ==
    IF entries = <<>> \/ res.err # NoError THEN res
    ELSE manifestFile_sort(path, Tail(entries),
             SortEntry(path, entries[1], [res EXCEPT !.done = @ + 1]))

----------------------------------------------------------------------------
(* The inputs.                                                             *)

\* the paths of the file map
PathA == <<"parent", "/", "templates", "/", "a.yaml">>
PathB == <<"parent", "/", "templates", "/", "b.yaml">>
PathPartial == <<"parent", "/", "templates", "/", "_", "NOTES.txt">>
PathNotes == <<"parent", "/", "templates", "/", "NOTES.txt">>
PathChildNotes ==
    <<"parent", "/", "charts", "/", "child", "/", "templates", "/", "NOTES.txt">>
PathMoreNotes == <<"parent", "/", "templates", "/", "more-", "NOTES.txt">>

Paths == {PathA, PathB, PathPartial, PathNotes, PathChildNotes, PathMoreNotes}

\* a map with the one key k
MapOf(k, v) == k :> v

\* the documents of the file maps of several files
DocNamespace == YamlTok("Namespace", <<>>)
DocService == YamlTok("Service", Meta("svc", <<MapOf("checksum/config", <<"x">>)>>))
DocWidget == YamlTok("Widget", Meta("w", << <<>> >>))
DocHook == YamlTok("Job", Meta("job", <<MapOf(HookAnno, <<"pre-install">>)>>))

DocSet == {DocNamespace, DocService, DocHook, TextTok}

\* the documents ds, a separator line between each two
RECURSIVE JoinDocs(_)
JoinDocs(ds) ==
    IF Len(ds) <= 1 THEN ds
    ELSE <<ds[1], SepTok>> \o JoinDocs(Tail(ds))

\* the texts of n documents; the text of none is white space
Texts(n) == IF n = 0 THEN {<<WsTok>>} ELSE {JoinDocs(ds) : ds \in [1..n -> DocSet]}

\* the file maps over the paths S that hold budget documents at most
RECURSIVE FileMapsOver(_, _)
FileMapsOver(S, budget) ==
    IF S = {} THEN {<<>>}
    ELSE LET p == CHOOSE q \in S : TRUE
         IN  UNION {{MapOf(p, c) @@ rest : c \in Texts(n),
                                            rest \in FileMapsOver(S \ {p}, budget - n)}
                    : n \in 0..budget}

FileMaps ==
    UNION {FileMapsOver(S, MaxDocs) : S \in {T \in SUBSET Paths : Cardinality(T) <= MaxFiles}}

\* the file maps of manifest files only
ManifestFileMaps == UNION {FileMapsOver(S, MaxManifestDocs) : S \in SUBSET {PathA, PathB}}

\* the pieces ts, a comma between each two
RECURSIVE JoinComma(_)
JoinComma(ts) ==
    IF Len(ts) = 0 THEN <<>>
    ELSE IF Len(ts) = 1 THEN ts[1]
    ELSE ts[1] \o <<",">> \o JoinComma(Tail(ts))

\* the values of n comma-separated pieces, each piece out of pieces
ValuesOf(pieces) ==
    UNION {{JoinComma(ts) : ts \in [1..n -> pieces]} : n \in 1..MaxTokens}

HookTypeValues ==
    ValuesOf({<<"pre-install">>, <<"post-install">>, <<"bogus">>, <<>>,
              <<" ", "PRE-INSTALL", " ">>})

DeletePolicyValues ==
    ValuesOf({<<"hook-succeeded">>, <<"hook-failed">>, <<"bogus">>,
              <<" ", "Hook-Succeeded">>})

WeightValues ==
    { <<>>, <<"-", "5">>, <<"a", "b", "c">>, <<"0">>, <<"+", "7">>, <<"0", "0", "7">>,
      <<"-">>, <<" ", "5">>, <<"1", "2", "a">>,
      <<"2","1","4","7","4","8","3","6","4","7">>,
      <<"2","1","4","7","4","8","3","6","4","8">>,
      <<"-","2","1","4","7","4","8","3","6","4","8">>,
      <<"-","2","1","4","7","4","8","3","6","4","9">>,
      <<"4","2","9","4","9","6","7","3","0","1">>,
      <<"9","2","2","3","3","7","2","0","3","6","8","5","4","7","7","5","8","0","7">>,
      Cutoff64 }

\* one-document files: every hook-type value with every delete-policy value
\* or none, every weight value, and the documents without a hook-type key
HookDocs ==
    {YamlTok("Job", Meta("job", <<MapOf(HookAnno, hv)>>)) : hv \in HookTypeValues}
    \cup {YamlTok("Job", Meta("job", <<MapOf(HookAnno, hv) @@ MapOf(HookDeleteAnno, dv)>>))
          : hv \in HookTypeValues, dv \in DeletePolicyValues}
    \cup {YamlTok("Job", Meta("job", <<MapOf(HookAnno, <<"pre-install">>)
                                       @@ MapOf(HookWeightAnno, wv)>>))
          : wv \in WeightValues}

PlainDocs ==
    { DocWidget,
      YamlTok("Pod", Meta("pod", <<>>)),
      YamlTok("Pod", Meta("pod", <<MapOf(HookWeightAnno, <<"-", "5">>)
                                   @@ MapOf(HookDeleteAnno, <<"hook-succeeded">>)>>)) }

----------------------------------------------------------------------------
(* The components at rest: no call of theirs is under way.                 *)

\* no list has been handed to a readiness predicate
NoVerdicts == [pods |-> <<>>, svc |-> <<>>, vols |-> <<>>]

ReadyIdle == pods = <<>> /\ svc = <<>> /\ vols = <<>> /\ ready = NoVerdicts

WaitIdle ==
    /\ targets = {} /\ pollInterval = 0 /\ deadline = 0
    /\ clock = 0 /\ tick = 0 /\ fetched = <<>> /\ passed = {} /\ outcome = "Idle"

\* FlattenManifests has not been called
FlattenIdle == flat = <<>>

\* a FakeClient as FakeClient{} constructs it, on which nothing is called
NoOptions ==
    [dryRun |-> FALSE,
     instReq |-> [Name |-> <<>>, Description |-> <<>>, Values |-> <<>>],
     updateReq |-> [Values |-> <<>>, Description |-> <<>>, ResetValues |-> FALSE],
     rollbackReq |-> [Version |-> 0, Description |-> <<>>],
     contentReq |-> [Version |-> 0],
     histReq |-> [Max |-> 0],
     listReq |-> [Limit |-> 0]]

ClientIdle ==
    /\ Rels = <<>> /\ Opts = NoOptions /\ RenderManifests = FALSE
    /\ call = <<>> /\ resp = <<>>

----------------------------------------------------------------------------
(* Partition.                                                              *)

\* the result struct before the loop
NoResult == [hooks |-> <<>>, generic |-> <<>>]

\* what Partition has returned, before it returns
NoRet == [hooks |-> <<>>, generic |-> <<>>, notes |-> <<>>, err |-> NoError]

Init ==
    /\ \/ files \in FileMaps /\ sort \in SortOrders
       \/ files \in ManifestFileMaps /\ sort \in SortOrders
       \/ files \in {MapOf(PathA, <<d>>) : d \in HookDocs \cup PlainDocs}
          /\ sort = InstallOrder
    /\ pc = "loop"
    /\ todo = DOMAIN files
    /\ result = NoResult
    /\ notes = <<>>
    /\ ret = NoRet
    /\ processed = <<>>
    /\ prev = <<>>
    /\ ReadyIdle
    /\ WaitIdle
    /\ FlattenIdle
    /\ ClientIdle

\* the permutations of 1..n: the orders in which a range over a map of n
\* keys may yield them
Orders(n) == {f \in [1..n -> 1..n] : \A i, j \in 1..n : f[i] = f[j] => i = j}

\* the range over files yields filePath next
Yields(filePath) ==
    /\ pc = "loop"
    /\ filePath \in todo
    /\ todo' = todo \ {filePath}
    /\ UNCHANGED <<readyVars, waitVars, flattenVars, clientVars>>

\* isPartial that looks at the path where it should look at its base name
isPartialPath(filePath) == HasPrefix(filePath, <<"_">>)

isPartial(filePath) == HasPrefix(Base(filePath), <<"_">>)

\* isEmpty that forgets to trim: the empty string alone is empty
isEmptyUntrimmed(c) == Len(c) = 0

isEmpty(c) == Len(TrimText(c)) = 0

\* isNotes that takes the parent chart's notes file alone for a notes file,
\* as the glob */templates/NOTES.txt does
isNotesOfParent(filePath) == filePath = PathNotes

isNotes(filePath) == HasSuffix(filePath, <<"NOTES.txt">>)

\* chartName that goes up one directory only
chartNameOneUp(filePath) == Base(Dir(filePath))

\* the chart a notes file belongs to
chartName(filePath) == Base(Dir(Dir(filePath)))

\* a partial is passed over
SkipPartial(filePath) ==
    /\ Yields(filePath)
    /\ isPartial(filePath)
    /\ UNCHANGED <<files, sort, pc, result, notes, ret, processed, prev>>

\* an empty file is passed over
SkipEmpty(filePath) ==
    /\ Yields(filePath)
    /\ ~isPartial(filePath)
    /\ isEmpty(files[filePath])
    /\ UNCHANGED <<files, sort, pc, result, notes, ret, processed, prev>>

\* a notes file goes into notes under its chart's name
CollectNotes(filePath) ==
    /\ Yields(filePath)
    /\ ~isPartial(filePath)
    /\ ~isEmpty(files[filePath])
    /\ isNotes(filePath)
    /\ notes' = [k \in DOMAIN notes \cup {chartName(filePath)} |->
                    IF k = chartName(filePath) THEN files[filePath] ELSE notes[k]]
    /\ UNCHANGED <<files, sort, pc, result, ret, processed, prev>>

\* what manifestFile.sort makes of result when the range over the entries of
\* the file yields them in the order o
Sorted(filePath, o) ==
    LET split == SplitManifests(files[filePath])
        entries == [i \in 1..Len(split) |-> split[o[i]]]
    IN  [entries |-> entries,
         res |-> manifestFile_sort(filePath, entries,
                     [hooks |-> result.hooks, generic |-> result.generic,
                      err |-> NoError, done |-> 0])]

isManifestFile(filePath) ==
    ~isPartial(filePath) /\ ~isEmpty(files[filePath]) /\ ~isNotes(filePath)

\* every document of a file is sorted into result
SortFile(filePath) ==
    /\ Yields(filePath)
    /\ isManifestFile(filePath)
    /\ \E o \in Orders(Len(SplitManifests(files[filePath]))) :
          LET s == Sorted(filePath, o)
          IN  /\ s.res.err = NoError
              /\ result' = [hooks |-> s.res.hooks, generic |-> s.res.generic]
              /\ processed' = processed \o
                     [i \in 1..s.res.done |-> [path |-> filePath, m |-> s.entries[i]]]
    /\ UNCHANGED <<files, sort, pc, notes, ret, prev>>

\* ErrorReturn that hands back the error alone
ErrorReturnNil(res, err) ==
    [hooks |-> <<>>, generic |-> <<>>, notes |-> <<>>, err |-> err]

\* what Partition returns when manifestFile.sort has returned err
ErrorReturn(res, err) ==
    [hooks |-> res.hooks, generic |-> res.generic, notes |-> notes, err |-> err]

\* a document of a file does not parse: Partition returns the error
SortFileError(filePath) ==
    /\ Yields(filePath)
    /\ isManifestFile(filePath)
    /\ \E o \in Orders(Len(SplitManifests(files[filePath]))) :
          LET s == Sorted(filePath, o)
          IN  /\ s.res.err # NoError
              /\ result' = [hooks |-> s.res.hooks, generic |-> s.res.generic]
              /\ processed' = processed \o
                     [i \in 1..s.res.done |-> [path |-> filePath, m |-> s.entries[i]]]
              /\ ret' = ErrorReturn(s.res, s.res.err)
    /\ pc' = "done"
    /\ UNCHANGED <<files, sort, notes, prev>>

\* FinalReturn without the call of sortByKind
FinalReturnUnsorted(res) ==
    [hooks |-> res.hooks, generic |-> res.generic, notes |-> notes, err |-> NoError]

\* what Partition returns after the loop
FinalReturn(res) ==
    [hooks |-> res.hooks, generic |-> sortByKind(res.generic, sort),
     notes |-> notes, err |-> NoError]

\* the loop is over: Partition returns the hooks, the sorted manifests, the notes
Return ==
    /\ pc = "loop"
    /\ todo = {}
    /\ pc' = "done"
    /\ ret' = FinalReturn(result)
    /\ UNCHANGED <<files, sort, todo, result, notes, processed, prev>>
    /\ UNCHANGED <<readyVars, waitVars, flattenVars, clientVars>>

Next ==
    \/ \E filePath \in todo : SkipPartial(filePath)
    \/ \E filePath \in todo : SkipEmpty(filePath)
    \/ \E filePath \in todo : CollectNotes(filePath)
    \/ \E filePath \in todo : SortFile(filePath)
    \/ \E filePath \in todo : SortFileError(filePath)
    \/ Return

Spec == Init /\ [][Next]_vars

----------------------------------------------------------------------------
(* A second call of Partition on the same arguments.                       *)

\* Partition has returned and is called again with the same file map and
\* sort order; prev keeps what the call before returned
CallAgain ==
    /\ pc = "done"
    /\ prev' = <<ret>>
    /\ pc' = "loop"
    /\ todo' = DOMAIN files
    /\ result' = NoResult
    /\ notes' = <<>>
    /\ ret' = NoRet
    /\ processed' = <<>>
    /\ UNCHANGED <<files, sort>>
    /\ UNCHANGED <<readyVars, waitVars, flattenVars, clientVars>>

NextTwice == Next \/ (CallAgain /\ prev = <<>>)

SpecTwice == Init /\ [][NextTwice]_vars

----------------------------------------------------------------------------
(* What the claims speak of.                                               *)

\* the document parses
Parses(m) == ~Unmarshal(m).err

\* the annotation mapping of a document that parses
AnnotationsOf(m) == Annotations(Unmarshal(m).entry)

\* the document parses and carries the hook-type annotation
HasHookType(m) == Parses(m) /\ HookAnno \in DOMAIN AnnotationsOf(m)

\* the comma-separated tokens of a value, each trimmed and lowercased
TokensOf(value) ==
    LET parts == Split(value, ",")
    IN  [i \in 1..Len(parts) |-> ToLower(TrimSpace(parts[i]))]

HookTokens(m) == TokensOf(AnnotationsOf(m)[HookAnno])

\* every hook-type token of the document is in the hook-event table
AllResolve(m) == \A i \in 1..Len(HookTokens(m)) : HookTokens(m)[i] \in DOMAIN Events

\* how many elements of the sequence s satisfy P
CountIf(s, P(_)) == Cardinality({i \in 1..Len(s) : P(s[i])})

\* the hooks and the generic manifests among s that come from document m of
\* the file at path
HooksOf(s, path, m) == CountIf(s, LAMBDA h : h.Path = path /\ h.Manifest = m)
ManifestsOf(s, path, m) == CountIf(s, LAMBDA g : g.Name = path /\ g.Content = m)

\* how often the loop has taken up document m of the file at path
TakenUp(path, m) == CountIf(processed, LAMBDA d : d.path = path /\ d.m = m)

Returned == pc = "done"

Unhooked(m) ==
    LET entry == Unmarshal(m).entry
    IN  /\ Parses(m)
        /\ \/ entry.Metadata = <<>>
           \/ entry.Metadata[1].Annotations = <<>>
           \/ DOMAIN entry.Metadata[1].Annotations[1] = {}
           \/ HookAnno \notin DOMAIN entry.Metadata[1].Annotations[1]

\* C2: every document without metadata, without annotations or without the
\* hook-type key is returned as one generic manifest that has the path of its
\* file as Name and the document as Content, and as no hook.
C2_UnhookedIsGeneric ==
    Returned =>
        \A i \in 1..Len(processed) :
            LET d == processed[i]
            IN  Unhooked(d.m) =>
                    /\ ManifestsOf(ret.generic, d.path, d.m) = TakenUp(d.path, d.m)
                    /\ HooksOf(ret.hooks, d.path, d.m) = 0

\* a returned call that took up a document with annotations, none of them
\* the hook-type key
C2_Witness ==
    /\ Returned
    /\ \E i \in 1..Len(processed) :
          /\ Unhooked(processed[i].m)
          /\ DOMAIN AnnotationsOf(processed[i].m) # {}
          /\ ManifestsOf(ret.generic, processed[i].path, processed[i].m) = 1

\* the policies of the delete-policy tokens of a document that are in the
\* delete-policy table, in the order of the tokens
PoliciesOf(m) ==
    IF HookDeleteAnno \notin DOMAIN AnnotationsOf(m) THEN <<>>
    ELSE LET known == SelectSeq(TokensOf(AnnotationsOf(m)[HookDeleteAnno]),
                                LAMBDA t : t \in DOMAIN DeletePolices)
         IN  [i \in 1..Len(known) |-> DeletePolices[known[i]]]

\* C3: a document whose hook-type tokens all resolve is returned as one hook
\* whatever its delete-policy annotation holds; the hook's delete policies are
\* those of the tokens that resolve, in token order, the others left out.
C3_DeletePolicyPerToken ==
    Returned =>
        \A i \in 1..Len(processed) :
            LET d == processed[i]
            IN  (HasHookType(d.m) /\ AllResolve(d.m)) =>
                    /\ HooksOf(ret.hooks, d.path, d.m) = TakenUp(d.path, d.m)
                    /\ \A j \in 1..Len(ret.hooks) :
                          (ret.hooks[j].Path = d.path /\ ret.hooks[j].Manifest = d.m)
                              => ret.hooks[j].DeletePolicies = PoliciesOf(d.m)

\* a returned hook whose delete-policy annotation is "bogus,hook-succeeded":
\* the policy behind the unresolved token is kept
C3_Witness ==
    /\ Returned
    /\ Len(ret.hooks) = 1
    /\ HookDeleteAnno \in DOMAIN AnnotationsOf(ret.hooks[1].Manifest)
    /\ TokensOf(AnnotationsOf(ret.hooks[1].Manifest)[HookDeleteAnno])
           = << <<"bogus">>, <<"hook-succeeded">> >>
    /\ ret.hooks[1].DeletePolicies = <<"SUCCEEDED">>

\* C4: every returned hook has at least one event, and its events are the
\* events of the hook-type tokens of its document, in token order, a token
\* that comes twice giving its event twice; a document whose hook-type value
\* is empty gives no hook.
C4_HookEvents ==
    Returned =>
        /\ \A j \in 1..Len(ret.hooks) :
              LET h == ret.hooks[j]
              IN  /\ Len(h.Events) >= 1
                  /\ HasHookType(h.Manifest)
                  /\ AllResolve(h.Manifest)
                  /\ h.Events = [k \in 1..Len(HookTokens(h.Manifest)) |->
                                    Events[HookTokens(h.Manifest)[k]]]
        /\ \A i \in 1..Len(processed) :
              (HasHookType(processed[i].m)
                  /\ AnnotationsOf(processed[i].m)[HookAnno] = <<>>)
                  => HooksOf(ret.hooks, processed[i].path, processed[i].m) = 0

\* a returned hook whose hook-type value names pre-install twice, once in
\* capitals between spaces
C4_Witness ==
    /\ Returned
    /\ Len(ret.hooks) = 1
    /\ AnnotationsOf(ret.hooks[1].Manifest)[HookAnno]
           = <<" ", "PRE-INSTALL", " ", ",", "pre-install">>
    /\ ret.hooks[1].Events = <<"PRE_INSTALL", "PRE_INSTALL">>

\* the weight annotation of a document, "" when it has none
WeightOf(m) == MapGet(AnnotationsOf(m), HookWeightAnno)

\* the string is a base-10 signed integer: an optional sign and digits
IsInteger(s) ==
    LET d == IF s # <<>> /\ s[1] \in {"+", "-"} THEN Tail(s) ELSE s
    IN  d # <<>> /\ \A i \in 1..Len(d) : d[i] \in Digit

\* the integer that digits with a sign denote, when it is a 32-bit integer
RECURSIVE Denoted(_, _, _)
Denoted(d, sign, acc) ==
    IF d = <<>> THEN acc
    ELSE Denoted(Tail(d), sign, acc * 10 + sign * DigitVal(d[1]))

ValueOf(s) ==
    IF s[1] = "-" THEN Denoted(Tail(s), -1, 0)
    ELSE IF s[1] = "+" THEN Denoted(Tail(s), 1, 0)
    ELSE Denoted(s, 1, 0)

\* 2^31, the first magnitude a weight cannot have
Cutoff32 == <<"2","1","4","7","4","8","3","6","4","8">>

\* the digits of s without sign and leading zeros
MagnitudeOf(s) == StripZeros(IF s[1] \in {"+", "-"} THEN Tail(s) ELSE s)

\* the integer that s denotes is one a weight (an int32) can be
IsWeight(s) ==
    \/ Len(MagnitudeOf(s)) < Len(Cutoff32)
    \/ /\ Len(MagnitudeOf(s)) = Len(Cutoff32)
       /\ \/ DigitsLess(MagnitudeOf(s), Cutoff32)
          \/ s[1] = "-" /\ MagnitudeOf(s) = Cutoff32

\* C5: the weight of a hook is the value of the weight annotation of its
\* document when that value is a base-10 signed integer, and 0 when the
\* annotation is absent or is no integer.
C5_WeightIsValue ==
    Returned =>
        \A j \in 1..Len(ret.hooks) :
            LET h == ret.hooks[j]
                ws == WeightOf(h.Manifest)
            IN  IF IsInteger(ws)
                THEN IsWeight(ws) /\ h.Weight = ValueOf(ws)
                ELSE h.Weight = 0


\* the base name of the path starts with "_"
Partial(p) == Len(p) > LastSlash(p) /\ p[LastSlash(p) + 1] = "_"

\* the file counts as a notes file: it is no partial, is not empty and its
\* path ends in NOTES.txt
NotesFile(p) ==
    /\ ~Partial(p)
    /\ \E i \in 1..Len(files[p]) : files[p][i].t # "ws"
    /\ p[Len(p)] = "NOTES.txt"

\* the name of the directory two levels above the file
ChartOf(p) ==
    LET parts == Split(p, "/")
    IN  parts[Len(parts) - 2]

\* the files the loop has been through
Visited == DOMAIN files \ todo

C7_SameManifestsEveryCall ==
    (Returned /\ prev # <<>>) => ret.generic = prev[1].generic

\* of two manifests of s whose kinds have priorities, the one of the lower
\* priority comes first for InstallOrder and last for UninstallOrder
InKindOrder(s, order) ==
    \A i, j \in 1..Len(s) :
        (/\ s[i].Head.Kind \in KnownKinds
         /\ s[j].Head.Kind \in KnownKinds
         /\ Priority(s[i].Head.Kind) < Priority(s[j].Head.Kind))
            => /\ order = InstallOrder => i < j
               /\ order = UninstallOrder => j < i

\* C8 as claimed: the generic manifests that Partition returns are in the
\* order of the priorities of their kinds.
C8_KindOrder == Returned => InKindOrder(ret.generic, sort)

\* C8: the generic manifests that Partition returns without an error are in
\* the order of the priorities of their kinds: the lower priority first for
\* InstallOrder, last for UninstallOrder, in whatever order the files and
\* documents were taken up.
C8_KindOrderWithoutError ==
    (Returned /\ ret.err = NoError) => InKindOrder(ret.generic, sort)

\* a call for InstallOrder that came upon a Service in one file before a
\* Namespace in another and returns them without an error
C8_Witness ==
    /\ Returned
    /\ ret.err = NoError
    /\ sort = InstallOrder
    /\ Len(result.generic) = 2
    /\ result.generic[1].Head.Kind = "Service"
    /\ result.generic[2].Head.Kind = "Namespace"
    /\ result.generic[1].Name # result.generic[2].Name

\* C9: a file whose base name starts with "_" gives no hook, no generic
\* manifest, no notes and no parse error, whatever it holds.
C9_PartialGivesNothing ==
    Returned =>
        /\ \A p \in DOMAIN files :
              Partial(p) =>
                  /\ \A i \in 1..Len(ret.hooks) : ret.hooks[i].Path # p
                  /\ \A i \in 1..Len(ret.generic) : ret.generic[i].Name # p
                  /\ \A i \in 1..Len(processed) : processed[i].path # p
                  /\ ret.err # ParseError(p)
        /\ \A k \in DOMAIN ret.notes :
              \E q \in DOMAIN files : NotesFile(q) /\ ChartOf(q) = k /\ ret.notes[k] = files[q]

\* a call on a file _NOTES.txt that holds text which is no YAML returns no
\* error and no notes
C9_Witness ==
    /\ Returned
    /\ ret.err = NoError
    /\ DOMAIN ret.notes = {}
    /\ \E p \in DOMAIN files :
          Partial(p) /\ p[Len(p)] = "NOTES.txt" /\ files[p] = <<TextTok>>

EndsInNotes(p) == p # <<>> /\ p[Len(p)] = "NOTES.txt"

\* C11: a file whose path ends in NOTES.txt is not split and not classified:
\* no document of it is taken up, it gives no hook and no generic manifest and
\* no parse error names it, whatever it holds.
C11_NotesFileNotClassified ==
    Returned =>
        \A p \in DOMAIN files :
            EndsInNotes(p) =>
                /\ \A i \in 1..Len(processed) : processed[i].path # p
                /\ \A i \in 1..Len(ret.hooks) : ret.hooks[i].Path # p
                /\ \A i \in 1..Len(ret.generic) : ret.generic[i].Name # p
                /\ ret.err # ParseError(p)

\* a call on a child chart's notes file that holds a document with a valid
\* hook annotation and, behind a separator, text that is no YAML: the file is
\* the chart's notes, and there is no hook, no manifest and no error
C11_Witness ==
    /\ Returned
    /\ DOMAIN files = {PathChildNotes}
    /\ files[PathChildNotes] = <<DocHook, SepTok, TextTok>>
    /\ HasHookType(<<DocHook>>) /\ AllResolve(<<DocHook>>)
    /\ ret.err = NoError
    /\ ret.hooks = <<>> /\ ret.generic = <<>>
    /\ ret.notes = MapOf(<<"child">>, files[PathChildNotes])

\* the content is white space and nothing else
WhiteOnly(c) == \A i \in 1..Len(c) : c[i].t = "ws"

----------------------------------------------------------------------------
(* The readiness predicates of pkg/kube/wait.go.                           *)

\* pods in a list, conditions of a pod, services and claims in a list
MaxPods == 2
MaxConditions == 2
MaxServices == 2
MaxClaims == 3

\* v1.PodReady, v1.ConditionTrue
PodReady == "Ready"
ConditionTrue == "True"

\* v1.ServiceTypeExternalName, v1.ServiceTypeLoadBalancer, v1.ClusterIPNone
ServiceTypeExternalName == "ExternalName"
ServiceTypeLoadBalancer == "LoadBalancer"
ClusterIPNone == "None"

\* v1.ClaimBound
ClaimBound == "Bound"

\* a v1.Pod: its name and pod.Status.Conditions
Pod(name, conditions) == [Name |-> name, Status |-> [Conditions |-> conditions]]

\* a v1.PodCondition
Condition(type, status) == [Type |-> type, Status |-> status]

\* a v1.Service: s.Spec.Type, s.Spec.ClusterIP and s.Status.LoadBalancer.Ingress;
\* the ingress is <<>> for the nil slice and <<entries>> for a slice that is
\* not nil, which may be empty
Service(type, clusterIP, ingress) ==
    [Spec |-> [Type |-> type, ClusterIP |-> clusterIP],
     Status |-> [LoadBalancer |-> [Ingress |-> ingress]]]

\* a v1.PersistentVolumeClaim: v.Status.Phase
Claim(phase) == [Status |-> [Phase |-> phase]]

\* the loop of isPodReady over the conditions
RECURSIVE ScanConditions(_)
ScanConditions(conditions) ==
    IF conditions = <<>> THEN FALSE
    ELSE IF conditions[1].Type = PodReady /\ conditions[1].Status = ConditionTrue
    THEN TRUE
    ELSE ScanConditions(Tail(conditions))

\* isPodReady that goes by the first condition of type Ready it finds
RECURSIVE isPodReadyFirstOfType(_)
isPodReadyFirstOfType(pod) ==
    LET cs == pod.Status.Conditions
    IN  IF cs = <<>> THEN FALSE
        ELSE IF cs[1].Type = PodReady THEN cs[1].Status = ConditionTrue
        ELSE isPodReadyFirstOfType(Pod(pod.Name, Tail(cs)))

isPodReady(pod) ==
    IF Len(pod.Status.Conditions) > 0 THEN ScanConditions(pod.Status.Conditions)
    ELSE FALSE

RECURSIVE podsReady(_)
podsReady(list) ==
    IF list = <<>> THEN TRUE
    ELSE IF ~isPodReady(list[1]) THEN FALSE
    ELSE podsReady(Tail(list))

RECURSIVE servicesReady(_)
servicesReady(list) ==
    IF list = <<>> THEN TRUE
    ELSE LET s == list[1]
         IN  IF s.Spec.Type = ServiceTypeExternalName THEN servicesReady(Tail(list))
             ELSE IF s.Spec.ClusterIP # ClusterIPNone /\ s.Spec.ClusterIP = "" THEN FALSE
             ELSE IF /\ s.Spec.Type = ServiceTypeLoadBalancer
                     /\ s.Status.LoadBalancer.Ingress = <<>>
             THEN FALSE
             ELSE servicesReady(Tail(list))

\* volumesReady that is content with the first claim being bound
volumesReadyFirst(list) == list = <<>> \/ list[1].Status.Phase = ClaimBound

RECURSIVE volumesReady(_)
volumesReady(list) ==
    IF list = <<>> THEN TRUE
    ELSE IF list[1].Status.Phase # ClaimBound THEN FALSE
    ELSE volumesReady(Tail(list))

\* the sequences over S of length n at most
SeqsUpTo(S, n) == UNION {[1..k -> S] : k \in 0..n}

\* the conditions a pod may have
Conditions ==
    {Condition(PodReady, ConditionTrue), Condition(PodReady, "False"),
     Condition("PodScheduled", ConditionTrue)}

PodLists ==
    SeqsUpTo({Pod("p", cs) : cs \in SeqsUpTo(Conditions, MaxConditions)}, MaxPods)

\* the services: every type (also none) with no cluster IP, the sentinel or
\* an address, and with a nil, an empty or a one-entry ingress slice
Services ==
    {Service(type, ip, ingress) :
        type \in {"", "ClusterIP", ServiceTypeLoadBalancer, ServiceTypeExternalName},
        ip \in {"", ClusterIPNone, "10.0.0.1"},
        ingress \in {<<>>, << <<>> >>, << <<"192.0.2.1">> >>}}

ServiceLists == SeqsUpTo(Services, MaxServices)

ClaimLists == SeqsUpTo({Claim(phase) : phase \in {ClaimBound, "Pending", "Lost", ""}}, MaxClaims)

\* Partition is not under way
PartitionIdle ==
    /\ files = <<>> /\ sort = InstallOrder /\ pc = "idle" /\ todo = {}
    /\ result = NoResult /\ notes = <<>> /\ ret = NoRet /\ processed = <<>>
    /\ prev = <<>>

\* one list of pods, of services or of claims
InitReady ==
    /\ \/ pods \in PodLists /\ svc = <<>> /\ vols = <<>>
       \/ pods = <<>> /\ svc \in ServiceLists /\ vols = <<>>
       \/ pods = <<>> /\ svc = <<>> /\ vols \in ClaimLists
    /\ ready = NoVerdicts
    /\ PartitionIdle
    /\ WaitIdle
    /\ FlattenIdle
    /\ ClientIdle

CallPodsReady ==
    /\ ready.pods = <<>>
    /\ ready' = [ready EXCEPT !.pods = <<podsReady(pods)>>]
    /\ UNCHANGED <<pods, svc, vols, partitionVars, waitVars, flattenVars, clientVars>>

CallServicesReady ==
    /\ ready.svc = <<>>
    /\ ready' = [ready EXCEPT !.svc = <<servicesReady(svc)>>]
    /\ UNCHANGED <<pods, svc, vols, partitionVars, waitVars, flattenVars, clientVars>>

CallVolumesReady ==
    /\ ready.vols = <<>>
    /\ ready' = [ready EXCEPT !.vols = <<volumesReady(vols)>>]
    /\ UNCHANGED <<pods, svc, vols, partitionVars, waitVars, flattenVars, clientVars>>

NextReady == CallPodsReady \/ CallServicesReady \/ CallVolumesReady

SpecReady == InitReady /\ [][NextReady]_vars

\* C12: podsReady returns true exactly when every pod of the list has a
\* condition of type Ready with status True, wherever that condition stands
\* and whatever the pod's other conditions are; a pod without conditions is
\* not ready and the empty list is.
C12_PodsReady ==
    ready.pods # <<>> =>
        ready.pods[1] =
            \A i \in 1..Len(pods) :
                \E j \in 1..Len(pods[i].Status.Conditions) :
                    /\ pods[i].Status.Conditions[j].Type = "Ready"
                    /\ pods[i].Status.Conditions[j].Status = "True"

\* podsReady has returned true for a pod whose conditions are Ready False
\* and then Ready True
C12_Witness ==
    /\ ready.pods = <<TRUE>>
    /\ \E i \in 1..Len(pods) :
          pods[i].Status.Conditions =
              <<Condition("Ready", "False"), Condition("Ready", "True")>>

\* the service has a load-balancer ingress entry
HasIngress(s) ==
    /\ s.Status.LoadBalancer.Ingress # <<>>
    /\ Len(s.Status.LoadBalancer.Ingress[1]) >= 1

\* C13: servicesReady returns true exactly when every service of the list
\* has type ExternalName, or has a cluster IP that is not empty (the sentinel
\* None counts) and, when its type is LoadBalancer, an ingress entry.
C13_ServicesReady ==
    ready.svc # <<>> =>
        ready.svc[1] =
            \A i \in 1..Len(svc) :
                \/ svc[i].Spec.Type = "ExternalName"
                \/ /\ svc[i].Spec.ClusterIP # ""
                   /\ svc[i].Spec.Type = "LoadBalancer" => HasIngress(svc[i])

\* C14: volumesReady returns true exactly when every claim of the list has
\* phase Bound; one claim in another phase, wherever it stands, makes the
\* list not ready.
C14_VolumesReady ==
    ready.vols # <<>> =>
        ready.vols[1] = \A i \in 1..Len(vols) : vols[i].Status.Phase = "Bound"

\* volumesReady has returned false for a list whose last claim alone is not
\* bound
C14_Witness ==
    /\ ready.vols = <<FALSE>>
    /\ vols = <<Claim("Bound"), Claim("Bound"), Claim("Pending")>>

----------------------------------------------------------------------------
(* WaitForReady: the wait that polls the readiness predicates.             *)

\* the longest poll interval and the latest deadline of a wait
MaxInterval == 2
MaxDeadline == 2

\* the kinds of the targets
Kinds == {"Pod", "Service", "PersistentVolumeClaim"}

\* what the cluster may hold of a kind: a list that is ready and one that is
\* not
ReadyItems(kind) ==
    CASE kind = "Pod" -> <<Pod("p", <<Condition(PodReady, ConditionTrue)>>)>>
      [] kind = "Service" -> <<Service("ClusterIP", "10.0.0.1", <<>>)>>
      [] kind = "PersistentVolumeClaim" -> <<Claim(ClaimBound)>>

UnreadyItems(kind) ==
    CASE kind = "Pod" -> <<Pod("p", <<Condition(PodReady, "False")>>)>>
      [] kind = "Service" -> <<Service(ServiceTypeLoadBalancer, "10.0.0.1", <<>>)>>
      [] kind = "PersistentVolumeClaim" -> <<Claim("Pending")>>

\* what the List call of the client returns: the list and no error, or an
\* empty list and the error
Listed(items) == [list |-> [Items |-> items], err |-> NoError]
ListFailed == [list |-> [Items |-> <<>>], err |-> <<"connection refused">>]

ListResponses(kind) == {Listed(ReadyItems(kind)), Listed(UnreadyItems(kind)), ListFailed}

\* getPods that keeps the error of the List call to itself
getPodsDropsError(response) == [Items |-> response.list.Items, err |-> NoError]

\* getPods: return list.Items, err
getPods(response) == [Items |-> response.list.Items, err |-> response.err]

\* the fetch of the services and of the claims
getObjects(response) == [Items |-> response.list.Items, err |-> response.err]

\* the readiness predicate of a kind on the items fetched
Passes(kind, items) ==
    CASE kind = "Pod" -> podsReady(items)
      [] kind = "Service" -> servicesReady(items)
      [] kind = "PersistentVolumeClaim" -> volumesReady(items)

Terminal == {"Ready", "Timeout", "Error", "Cancelled"}

InitWait ==
    /\ targets \in SUBSET Kinds
    /\ pollInterval \in 1..MaxInterval
    /\ deadline \in 0..MaxDeadline
    /\ clock = 0
    /\ tick = 1
    /\ fetched = <<>>
    /\ passed = {}
    /\ outcome = "Polling"
    /\ PartitionIdle
    /\ ReadyIdle
    /\ FlattenIdle
    /\ ClientIdle

\* every target has been fetched in this tick
Joined == DOMAIN fetched = targets

\* a fetch of this tick has returned an error
FetchErrored == \E k \in DOMAIN fetched : fetched[k].got.err # NoError

\* AllPass that counts a target that passed on an earlier tick as passing
AllPassOnce ==
    \A k \in targets : k \in passed \/ Passes(k, fetched[k].got.Items)

\* every target passes its predicate on what this tick fetched
AllPass == \A k \in targets : Passes(k, fetched[k].got.Items)

\* one fetch of the tick: the state of a target as the cluster has it now
Fetch(kind) ==
    /\ outcome = "Polling"
    /\ kind \in targets \ DOMAIN fetched
    /\ \E response \in ListResponses(kind) :
          fetched' = fetched @@
              (kind :> [got |-> IF kind = "Pod" THEN getPods(response)
                                ELSE getObjects(response),
                        response |-> response,
                        tick |-> tick])
    /\ UNCHANGED <<targets, pollInterval, deadline, clock, tick, passed, outcome>>
    /\ UNCHANGED <<partitionVars, readyVars, flattenVars, clientVars>>

\* a fetch has failed: the wait ends with Error
ReportError ==
    /\ outcome = "Polling"
    /\ FetchErrored
    /\ outcome' = "Error"
    /\ UNCHANGED <<targets, pollInterval, deadline, clock, tick, fetched, passed>>
    /\ UNCHANGED <<partitionVars, readyVars, flattenVars, clientVars>>

\* all targets pass: the wait ends with Ready
ReportReady ==
    /\ outcome = "Polling"
    /\ Joined /\ ~FetchErrored
    /\ AllPass
    /\ outcome' = "Ready"
    /\ UNCHANGED <<targets, pollInterval, deadline, clock, tick, fetched, passed>>
    /\ UNCHANGED <<partitionVars, readyVars, flattenVars, clientVars>>

\* ReportTimeout that does not look at the clock
ReportTimeoutEarly ==
    /\ outcome = "Polling"
    /\ Joined /\ ~FetchErrored
    /\ ~AllPass
    /\ outcome' = "Timeout"
    /\ UNCHANGED <<targets, pollInterval, deadline, clock, tick, fetched, passed>>
    /\ UNCHANGED <<partitionVars, readyVars, flattenVars, clientVars>>

\* not all targets pass and the deadline has elapsed: the wait ends with
\* Timeout
ReportTimeout ==
    /\ outcome = "Polling"
    /\ Joined /\ ~FetchErrored
    /\ ~AllPass
    /\ clock >= deadline
    /\ outcome' = "Timeout"
    /\ UNCHANGED <<targets, pollInterval, deadline, clock, tick, fetched, passed>>
    /\ UNCHANGED <<partitionVars, readyVars, flattenVars, clientVars>>

\* not all targets pass and the deadline has not elapsed: the wait sleeps
\* until the next tick
Sleep ==
    /\ outcome = "Polling"
    /\ Joined /\ ~FetchErrored
    /\ ~AllPass
    /\ clock < deadline
    /\ clock' = clock + pollInterval
    /\ tick' = tick + 1
    /\ passed' = passed \cup {k \in targets : Passes(k, fetched[k].got.Items)}
    /\ fetched' = <<>>
    /\ UNCHANGED <<targets, pollInterval, deadline, outcome>>
    /\ UNCHANGED <<partitionVars, readyVars, flattenVars, clientVars>>

\* the caller cancels the wait at the start of a tick
Cancel ==
    /\ outcome = "Polling"
    /\ fetched = <<>>
    /\ outcome' = "Cancelled"
    /\ UNCHANGED <<targets, pollInterval, deadline, clock, tick, fetched, passed>>
    /\ UNCHANGED <<partitionVars, readyVars, flattenVars, clientVars>>

\* the steps of the wait itself
WaitStep ==
    \/ \E kind \in Kinds : Fetch(kind)
    \/ ReportError
    \/ ReportReady
    \/ ReportTimeout
    \/ Sleep

NextWait == WaitStep \/ Cancel

SpecWait == InitWait /\ [][NextWait]_vars

\* the wait is scheduled until it ends
SpecWaitFair == SpecWait /\ WF_vars(WaitStep)

\* C15: the wait ends with Ready only on a tick in which every target has
\* been fetched in that tick, without error, and passes its readiness
\* predicate on what that tick fetched; what passed on an earlier tick does
\* not count.
C15_ReadyWithinOneTick ==
    outcome = "Ready" =>
        \A k \in targets :
            /\ k \in DOMAIN fetched
            /\ fetched[k].tick = tick
            /\ fetched[k].got.err = NoError
            /\ Passes(k, fetched[k].got.Items)

\* a wait for pods and services that ends with Ready on its second tick: on
\* the first the pods passed and the services did not
C15_Witness ==
    /\ outcome = "Ready"
    /\ targets = {"Pod", "Service"}
    /\ tick = 2
    /\ passed = {"Pod"}
    /\ \A k \in targets : fetched[k].tick = 2 /\ Passes(k, fetched[k].got.Items)

\* a List call of this tick has returned an error
ListErrored == \E k \in DOMAIN fetched : fetched[k].response.err # NoError

\* C16: a fetch hands the error of its List call to the wait, and a tick in
\* which a List call has failed ends the wait with Error: the wait does not
\* poll again and ends neither with Ready nor with Timeout; Error is final.
C16_FetchErrorEndsWait ==
    /\ [](\A k \in DOMAIN fetched : fetched[k].got.err = fetched[k].response.err)
    /\ [][(outcome = "Polling" /\ ListErrored) =>
             /\ outcome' \in {"Polling", "Error"}
             /\ tick' = tick
             /\ ListErrored']_vars
    /\ [][outcome = "Error" => outcome' = "Error"]_vars

\* a wait that ends with Error on its second tick, the services fetched but
\* not ready and the List call for the pods failed
C16_Witness ==
    /\ outcome = "Error"
    /\ tick = 2
    /\ "Pod" \in DOMAIN fetched /\ fetched["Pod"].response = ListFailed
    /\ "Service" \in DOMAIN fetched
    /\ fetched["Service"].got.err = NoError
    /\ ~Passes("Service", fetched["Service"].got.Items)

\* C17: when every target has been fetched and passes, the wait ends with
\* Ready at that tick (the first included) without the clock going on; it
\* ends with Timeout at or after the deadline only; before the deadline it
\* ends only with Ready, with Error after a failed fetch, or cancelled; and
\* every wait ends.
C17_ReadyOrTimeout ==
    /\ [][(outcome = "Polling" /\ Joined /\ ~FetchErrored /\ AllPass) =>
             /\ outcome' \in {"Ready", "Cancelled"}
             /\ clock' = clock /\ tick' = tick]_vars
    /\ [](outcome = "Timeout" => clock >= deadline /\ Joined /\ ~AllPass)
    /\ []((outcome \in Terminal /\ clock < deadline) =>
             \/ outcome = "Ready"
             \/ outcome = "Error" /\ FetchErrored
             \/ outcome = "Cancelled")
    /\ <>(outcome \in Terminal)

\* a wait whose targets were not ready on any tick ends with Timeout on its
\* third tick, at the deadline
C17_Witness ==
    /\ outcome = "Timeout"
    /\ tick = 3
    /\ passed = {}
    /\ targets # {}
    /\ deadline = 2
    /\ clock = 2

----------------------------------------------------------------------------
(* FlattenManifests, and Partition called on the text it returns.          *)

\* the comment line "# Source: <name>"
SourceTok(name) == [t |-> "source", head |-> <<name>>]

\* FlattenManifests that writes the source line and the content of every
\* manifest, and no separator line
RECURSIVE FlattenManifestsNoSeparator(_)
FlattenManifestsNoSeparator(manifests) ==
    IF manifests = <<>> THEN <<>>
    ELSE <<WsTok, SourceTok(manifests[1].Name), WsTok>> \o manifests[1].Content
             \o FlattenManifestsNoSeparator(Tail(manifests))

\* FlattenManifests that writes the separator line between two manifests
\* only, as a join does
RECURSIVE FlattenManifestsJoin(_)
FlattenManifestsJoin(manifests) ==
    IF manifests = <<>> THEN <<>>
    ELSE <<WsTok, SourceTok(manifests[1].Name), WsTok>> \o manifests[1].Content
             \o (IF Len(manifests) = 1 THEN <<>> ELSE <<WsTok, SepTok>>)
             \o FlattenManifestsJoin(Tail(manifests))

\* FlattenManifests: for every manifest "\n---\n# Source: " + m.Name + "\n"
\* and then m.Content
RECURSIVE FlattenManifests(_)
FlattenManifests(manifests) ==
    IF manifests = <<>> THEN <<>>
    ELSE <<WsTok, SepTok, WsTok, SourceTok(manifests[1].Name), WsTok>>
             \o manifests[1].Content
             \o FlattenManifests(Tail(manifests))

\* the path under which the flattened text is handed to Partition
PathFlat == <<"release", "/", "manifest.yaml">>

\* the file maps of the first call: manifest files, or a manifest file with
\* a partial and a notes file
RoundTripFileMaps ==
    ManifestFileMaps
    \cup UNION {FileMapsOver(S, MaxDocs) : S \in SUBSET {PathA, PathPartial, PathNotes}}

InitRoundTrip ==
    /\ files \in RoundTripFileMaps
    /\ sort \in SortOrders
    /\ pc = "loop"
    /\ todo = DOMAIN files
    /\ result = NoResult
    /\ notes = <<>>
    /\ ret = NoRet
    /\ processed = <<>>
    /\ prev = <<>>
    /\ ReadyIdle
    /\ WaitIdle
    /\ FlattenIdle
    /\ ClientIdle

\* the generic manifests that Partition has returned are flattened
Flatten ==
    /\ pc = "done"
    /\ prev = <<>>
    /\ flat = <<>>
    /\ flat' = <<FlattenManifests(ret.generic)>>
    /\ UNCHANGED <<partitionVars, readyVars, waitVars, clientVars>>

\* Partition is called on the flattened text as its one file, with the sort
\* order of the call before; prev keeps what that call returned
PartitionFlat ==
    /\ pc = "done"
    /\ prev = <<>>
    /\ flat # <<>>
    /\ prev' = <<ret>>
    /\ files' = MapOf(PathFlat, flat[1])
    /\ pc' = "loop"
    /\ todo' = {PathFlat}
    /\ result' = NoResult
    /\ notes' = <<>>
    /\ ret' = NoRet
    /\ processed' = <<>>
    /\ UNCHANGED <<sort, flat>>
    /\ UNCHANGED <<readyVars, waitVars, clientVars>>

NextRoundTrip == Next \/ Flatten \/ PartitionFlat

SpecRoundTrip == InitRoundTrip /\ [][NextRoundTrip]_vars

\* the manifests that were handed to FlattenManifests
Flattened == IF prev = <<>> THEN ret.generic ELSE prev[1].generic

\* how many tokens FlattenManifests writes for the first i manifests of ms
RECURSIVE WrittenFor(_, _)
WrittenFor(ms, i) ==
    IF i = 0 THEN 0 ELSE WrittenFor(ms, i - 1) + 5 + Len(ms[i].Content)

\* C19: FlattenManifests writes the manifests in the order of the sequence,
\* for each a separator line, the line "# Source: <Name>" and the content
\* unchanged; the buffer holds one separator and one source line for every
\* manifest, and nothing for the empty sequence.
C19_FlattenFormat ==
    flat # <<>> =>
        LET out == flat[1]
            ms == Flattened
        IN  /\ Len(out) = WrittenFor(ms, Len(ms))
            /\ \A i \in 1..Len(ms) :
                  LET at == WrittenFor(ms, i - 1)
                  IN  /\ out[at + 1].t = "ws"
                      /\ out[at + 2].t = "sep"
                      /\ out[at + 3].t = "ws"
                      /\ out[at + 4] = [t |-> "source", head |-> <<ms[i].Name>>]
                      /\ out[at + 5].t = "ws"
                      /\ SubSeq(out, at + 6, at + 5 + Len(ms[i].Content)) = ms[i].Content
            /\ CountIf(out, LAMBDA k : k.t = "sep") = Len(ms)
            /\ CountIf(out, LAMBDA k : k.t = "source") = Len(ms)
            /\ ms = <<>> => out = <<>>

\* two manifests of two files, of different content, have been flattened
C19_Witness ==
    /\ flat # <<>>
    /\ Len(Flattened) = 2
    /\ Flattened[1].Name # Flattened[2].Name
    /\ Flattened[1].Content # Flattened[2].Content

\* the sequences a and b hold the same elements, each as often
SameBag(a, b) ==
    /\ Len(a) = Len(b)
    /\ \A i \in 1..Len(a) :
          CountIf(a, LAMBDA x : x = a[i]) = CountIf(b, LAMBDA x : x = a[i])

ContentsOf(ms) == [i \in 1..Len(ms) |-> ms[i].Content]

\* the second call, on the flattened text, has returned
ReturnedAgain == Returned /\ prev # <<>>

\* C18 as claimed: the generic manifests that Partition makes of the
\* flattened text have the contents of the manifests that were flattened.
C18_RoundTrip ==
    ReturnedAgain => SameBag(ContentsOf(ret.generic), ContentsOf(prev[1].generic))

\* C18: Partition makes of the flattened text, without an error, no hook and
\* one generic manifest for every manifest that was flattened: its content is
\* the line "# Source: <Name>" of that manifest and then that manifest's
\* content, its head is that manifest's head and its name is the path the
\* text was handed over under.
C18_RoundTripWithSourceLine ==
    ReturnedAgain =>
        LET ms == prev[1].generic
        IN  /\ ret.err = NoError
            /\ ret.hooks = <<>>
            /\ \A i \in 1..Len(ret.generic) : ret.generic[i].Name = PathFlat
            /\ SameBag([i \in 1..Len(ret.generic) |->
                            [Content |-> ret.generic[i].Content,
                             Head |-> ret.generic[i].Head]],
                       [i \in 1..Len(ms) |->
                            [Content |-> <<[t |-> "source", head |-> <<ms[i].Name>>], WsTok>>
                                             \o ms[i].Content,
                             Head |-> ms[i].Head]])

\* a first call that returned a hook and two generic manifests of different
\* kinds, and a second call on their flattened text that has returned two
\* manifests
C18_Witness ==
    /\ ReturnedAgain
    /\ prev[1].hooks # <<>>
    /\ Len(prev[1].generic) = 2
    /\ prev[1].generic[1].Head.Kind # prev[1].generic[2].Head.Kind
    /\ Len(ret.generic) = 2

----------------------------------------------------------------------------
(* FakeClient of k8s.io/helm/pkg/helm (fake.go): the releases it holds,    *)
(* the options that its calls write into it, and its operations.  A name,  *)
(* a description, a config, a manifest and a list of hooks are strings of  *)
(* symbols; versions are small int32.                                      *)

\* releases in the list of the client before the call
MaxRels == 2
\* highest version of a release of the list and of a version option
MaxVersion == 2
\* highest history maximum
MaxHistory == 2

\* the seconds of the timestamp of every mock release and of a rollback
Date == 242085845

ReleaseNames == {<<"funny-honey">>, <<"other">>}

\* string(rand.Intn(100)): the runes the name of a nameless mock may end in
Runes == {"rune-0", "rune-99"}

\* the chart a caller hands over: &chart.Chart{} has no metadata
EmptyChart == [Metadata |-> <<>>]
ChartWith(name) == [Metadata |-> name]
Charts == {EmptyChart, ChartWith(<<"mychart">>)}

\* no chart at all
NilChart == <<>>

\* the manifest and the hooks of every mock release
MockManifest == <<"kind: Secret">>
MockHookTemplate == <<"kind: Job", "helm.sh/hook: pre-install">>

\* MockReleaseOptions, zero value
NoMockOptions ==
    [Name |-> <<>>, Version |-> 0, Chart |-> NilChart, Config |-> <<>>,
     StatusCode |-> 0, Namespace |-> <<>>, Description |-> <<>>, Hooks |-> <<>>,
     OmitDefaultHook |-> FALSE]

\* release.Status_Code by number
StatusName(scode) ==
    CASE scode = 1 -> "DEPLOYED"
      [] scode = 2 -> "DELETED"
      [] scode = 3 -> "SUPERSEDED"
      [] OTHER -> "UNKNOWN"

\* ReleaseMock: rune is what rand.Intn yields when the options name nothing
ReleaseMock(opts, rune) ==
    [Name |-> IF opts.Name = <<>> THEN <<"testrelease-", rune>> ELSE opts.Name,
     Info |-> [FirstDeployed |-> Date,
               LastDeployed |-> Date,
               Status |-> [Code |-> IF opts.StatusCode > 0 THEN StatusName(opts.StatusCode)
                                    ELSE "DEPLOYED",
                           Notes |-> <<>>],
               Description |-> IF opts.Description = <<>> THEN <<"Release mock">>
                               ELSE opts.Description],
     Chart |-> IF opts.Chart = NilChart THEN ChartWith(<<"foo">>) ELSE opts.Chart,
     Config |-> IF opts.Config = <<>> THEN <<"name: value">> ELSE opts.Config,
     Version |-> IF opts.Version # 0 THEN opts.Version ELSE 1,
     Namespace |-> IF opts.Namespace = <<>> THEN <<"default">> ELSE opts.Namespace,
     Hooks |-> IF Len(opts.Hooks) = 0 /\ ~opts.OmitDefaultHook
               THEN <<"pre-install-hook", MockHookTemplate>> ELSE opts.Hooks,
     Manifest |-> MockManifest]

\* a revision as a test puts it into the list: a mock with a chart, config,
\* namespace and hooks of this revision, SUPERSEDED when it is the first
Revision(name, version) ==
    ReleaseMock([NoMockOptions EXCEPT
                    !.Name = name,
                    !.Version = version,
                    !.Chart = ChartWith(<<"chart", ToString(version)>>),
                    !.Config = <<"config", ToString(version)>>,
                    !.StatusCode = IF version = 1 THEN 3 ELSE 1,
                    !.Namespace = <<"namespace", ToString(version)>>,
                    !.Hooks = <<"hooks", ToString(version)>>],
                "rune-0")

MockReleases == {Revision(n, v) : n \in ReleaseNames, v \in 1..MaxVersion}

\* the lists a test gives the client: any releases, in any order
ReleaseLists == SeqsUpTo(MockReleases, MaxRels)

\* the options of one call, each a function that writes one field
ReleaseName(name) == [instName |-> name]
InstallDryRun(dry) == [installDryRun |-> dry]
UpgradeDryRun(dry) == [upgradeDryRun |-> dry]
RollbackVersion(ver) == [rollbackVersion |-> ver]
RollbackDryRun(dry) == [rollbackDryRun |-> dry]
ContentReleaseVersion(ver) == [contentVersion |-> ver]
WithMaxHistory(max) == [histMax |-> max]
ReleaseListLimit(limit) == [listLimit |-> limit]

\* opt(&c.Opts)
ApplyOption(opt, options) ==
    CASE DOMAIN opt = {"instName"} ->
            [options EXCEPT !.instReq.Name = opt.instName]
      [] DOMAIN opt = {"installDryRun"} ->
            [options EXCEPT !.dryRun = opt.installDryRun]
      [] DOMAIN opt = {"upgradeDryRun"} ->
            [options EXCEPT !.dryRun = opt.upgradeDryRun]
      [] DOMAIN opt = {"rollbackVersion"} ->
            [options EXCEPT !.rollbackReq.Version = opt.rollbackVersion]
      [] DOMAIN opt = {"rollbackDryRun"} ->
            [options EXCEPT !.dryRun = opt.rollbackDryRun]
      [] DOMAIN opt = {"contentVersion"} ->
            [options EXCEPT !.contentReq.Version = opt.contentVersion]
      [] DOMAIN opt = {"histMax"} ->
            [options EXCEPT !.histReq.Max = opt.histMax]
      [] DOMAIN opt = {"listLimit"} ->
            [options EXCEPT !.listReq.Limit = opt.listLimit]

\* for _, opt := range opts { opt(&c.Opts) }
RECURSIVE ApplyOptions(_, _)
ApplyOptions(opts, options) ==
    IF opts = <<>> THEN options
    ELSE ApplyOptions(Tail(opts), ApplyOption(Head(opts), options))

\* none or one of the options os
Maybe(os) == {<<>>} \cup {<<o>> : o \in os}

\* the option lists the operations are called with
InstallOptionLists ==
    {n \o d : n \in Maybe({ReleaseName(name) : name \in ReleaseNames}),
              d \in Maybe({InstallDryRun(dry) : dry \in BOOLEAN})}
UpdateOptionLists == Maybe({UpgradeDryRun(dry) : dry \in BOOLEAN})
RollbackOptionLists ==
    {v \o d : v \in Maybe({RollbackVersion(ver) : ver \in 0..MaxVersion}),
              d \in Maybe({RollbackDryRun(dry) : dry \in BOOLEAN})}
ContentOptionLists == Maybe({ContentReleaseVersion(ver) : ver \in 0..MaxVersion})
HistoryOptionLists == Maybe({WithMaxHistory(max) : max \in (-1)..MaxHistory})
ListOptionLists == Maybe({ReleaseListLimit(1)})

\* the options an earlier call may have left in the client
OptionStates ==
    {ApplyOptions(opts, NoOptions) :
        opts \in InstallOptionLists \cup UpdateOptionLists \cup RollbackOptionLists
                   \cup ContentOptionLists \cup HistoryOptionLists}

\* storageerrors.ErrReleaseNotFound(release): version is <<>> for a name,
\* <<v>> for the "%s.v%d" of a revision
ErrReleaseNotFound(rlsName, version) ==
    [error |-> "not found", release |-> rlsName, version |-> version]

ErrHistoryMax == [error |-> "release history max < 0"]
ErrNameInUse == [error |-> "cannot re-use a name that is still in use"]
ErrNoMetadata ==
    [error |-> "a release with a chart with metadata must be provided to render the manifests"]
ErrRender == [error |-> "render"]

\* the response of a call: what it returns, or an error
Responded(release) == [release |-> <<release>>, err |-> <<>>]
Failed(err) == [release |-> <<>>, err |-> <<err>>]

\* list without its i-th element
Without(list, i) == SubSeq(list, 1, i - 1) \o SubSeq(list, i + 1, Len(list))

\* relutil.Reverse(list, relutil.SortByRevision): the list sorted by Version
\* and turned round, so in descending order of Version.  sort.Sort is not
\* stable: releases of equal Version may come out in any order.
RECURSIVE Reverse(_)
Reverse(list) ==
    IF list = <<>> THEN {<<>>}
    ELSE UNION {{<<list[i]>> \o rest : rest \in Reverse(Without(list, i))} :
                  i \in {j \in 1..Len(list) :
                            \A k \in 1..Len(list) : list[k].Version <= list[j].Version}}

\* the loop of ReleaseHistory: the releases of the name, in the order of Rels
Named(rels, rlsName) ==
    LET RECURSIVE collect(_)
        collect(i) ==
            IF i > Len(rels) THEN <<>>
            ELSE (IF rels[i].Name = rlsName THEN <<rels[i]>> ELSE <<>>) \o collect(i + 1)
    IN  collect(1)

\* the last index of rels that holds a release of the name and, when version
\* is not 0, of this version; 0 when there is none
LastIndex(rels, rlsName, version) ==
    LET at == {i \in 1..Len(rels) :
                  rels[i].Name = rlsName /\ (version = 0 \/ version = rels[i].Version)}
    IN  IF at = {} THEN 0 ELSE CHOOSE i \in at : \A j \in at : j <= i

\* ReleaseStatus: name, info and namespace of the last release of the name
ReleaseStatus(rels, rlsName) ==
    LET i == LastIndex(rels, rlsName, 0)
    IN  IF i = 0 THEN Failed(ErrReleaseNotFound(rlsName, <<>>))
        ELSE Responded([Name |-> rels[i].Name, Info |-> rels[i].Info,
                        Namespace |-> rels[i].Namespace])

\* ReleaseContent, the options of the call applied: the last release of the
\* name, of the content version in effect when there is one
ReleaseContent(rels, options, rlsName) ==
    LET i == LastIndex(rels, rlsName, options.contentReq.Version)
    IN  IF i # 0 THEN Responded(rels[i])
        ELSE Failed(ErrReleaseNotFound(rlsName,
                        IF options.contentReq.Version # 0
                        THEN <<options.contentReq.Version>> ELSE <<>>))

\* ReleaseHistory keeping the first Max releases of the name, not the last
ReleaseHistoryOldest(rels, options, rlsName) ==
    LET all == Named(rels, rlsName)
        m == options.histReq.Max
        retained == CASE m = 0 -> all
                      [] m >= Len(all) -> all
                      [] OTHER -> SubSeq(all, 1, m)
    IN  IF m < 0 THEN {[Releases |-> <<>>, err |-> <<ErrHistoryMax>>]}
        ELSE IF Len(retained) = 0
             THEN {[Releases |-> <<>>, err |-> <<ErrReleaseNotFound(rlsName, <<>>)>>]}
             ELSE {[Releases |-> h, err |-> <<>>] : h \in Reverse(retained)}

\* ReleaseHistory, the options of the call applied: the responses it may
\* give, as (Releases, err)
ReleaseHistory(rels, options, rlsName) ==
    LET all == Named(rels, rlsName)
        m == options.histReq.Max
        retained == CASE m = 0 -> all
                      [] m >= Len(all) -> all
                      [] OTHER -> SubSeq(all, Len(all) - m + 1, Len(all))
    IN  IF m < 0 THEN {[Releases |-> <<>>, err |-> <<ErrHistoryMax>>]}
        ELSE IF Len(retained) = 0
             THEN {[Releases |-> <<>>, err |-> <<ErrReleaseNotFound(rlsName, <<>>)>>]}
             ELSE {[Releases |-> h, err |-> <<>>] : h \in Reverse(retained)}

\* ListReleases: the options are applied to a copy of c.Opts
ListReleases(rels, options) ==
    LET limit == options.listReq.Limit
        cut == limit # 0 /\ limit < Len(rels)
    IN  Responded([Count |-> IF cut THEN limit ELSE Len(rels),
                   Releases |-> IF cut THEN SubSeq(rels, 1, limit) ELSE rels,
                   Next |-> IF cut THEN rels[limit + 1].Name ELSE <<>>])

\* RenderReleaseMock: what it may make of the release.  renderutil.Render
\* and Partition may fail; when they do not, the hooks and the manifest of
\* the release are those rendered from its chart.
RenderReleaseMock(r) ==
    IF r.Chart.Metadata = <<>> THEN {[release |-> r, err |-> <<ErrNoMetadata>>]}
    ELSE {[release |-> r, err |-> <<ErrRender>>],
          [release |-> [r EXCEPT !.Hooks = <<"hooks of">> \o r.Chart.Metadata,
                                 !.Manifest = <<"manifest of">> \o r.Chart.Metadata],
           err |-> <<>>]}

\* the release InstallReleaseFromChart makes
installed(chart, ns, options, rune) ==
    ReleaseMock([NoMockOptions EXCEPT
                    !.Name = options.instReq.Name,
                    !.Chart = chart,
                    !.Config = options.instReq.Values,
                    !.Namespace = ns,
                    !.Description = options.instReq.Description],
                rune)

\* an update that gives the new release the default namespace
updatedInDefault(rel, newChart, options) ==
    ReleaseMock([NoMockOptions EXCEPT
                    !.Name = rel.Name,
                    !.Version = rel.Version + 1,
                    !.Chart = newChart,
                    !.Config = options.updateReq.Values,
                    !.Description = options.updateReq.Description],
                "rune-0")

\* the release UpdateReleaseFromChart makes of the release it found
updated(rel, newChart, options) ==
    LET mock == ReleaseMock([NoMockOptions EXCEPT
                                !.Name = rel.Name,
                                !.Version = rel.Version + 1,
                                !.Chart = newChart,
                                !.Config = options.updateReq.Values,
                                !.Namespace = rel.Namespace,
                                !.Description = options.updateReq.Description],
                            "rune-0")
    IN  IF options.updateReq.ResetValues THEN [mock EXCEPT !.Config = <<"{}">>]
        ELSE mock

\* the release a rollback would make of the current release of the target:
\* with the chart of the current release
newReleaseOfCurrent(rlsName, cur, tgt, options) ==
    [Name |-> rlsName,
     Namespace |-> tgt.Namespace,
     Chart |-> cur.Chart,
     Config |-> tgt.Config,
     Info |-> [FirstDeployed |-> cur.Info.FirstDeployed,
               LastDeployed |-> Date,
               Status |-> [Code |-> "DEPLOYED", Notes |-> tgt.Info.Status.Notes],
               Description |-> options.rollbackReq.Description],
     Version |-> cur.Version + 1,
     Manifest |-> tgt.Manifest,
     Hooks |-> tgt.Hooks]

\* newRelease of RollbackRelease
newRelease(rlsName, cur, tgt, options) ==
    [Name |-> rlsName,
     Namespace |-> tgt.Namespace,
     Chart |-> tgt.Chart,
     Config |-> tgt.Config,
     Info |-> [FirstDeployed |-> cur.Info.FirstDeployed,
               LastDeployed |-> Date,
               Status |-> [Code |-> "DEPLOYED", Notes |-> tgt.Info.Status.Notes],
               Description |-> options.rollbackReq.Description],
     Version |-> cur.Version + 1,
     Manifest |-> tgt.Manifest,
     Hooks |-> tgt.Hooks]

\* the end of a call that appends the release whether or not dry-run is set
OutcomesDryRunIgnored(rels, options, render, release) ==
    {[Rels |-> IF o.err # <<>> THEN rels ELSE Append(rels, o.release),
      resp |-> IF o.err # <<>> THEN Failed(o.err[1]) ELSE Responded(o.release)] :
        o \in IF render THEN RenderReleaseMock(release)
              ELSE {[release |-> release, err |-> <<>>]}}

\* the end of InstallReleaseFromChart, UpdateReleaseFromChart and
\* RollbackRelease: (the list, the response) once the release is made and,
\* when the client renders, rendered
Outcomes(rels, options, render, release) ==
    {[Rels |-> IF o.err # <<>> \/ options.dryRun THEN rels ELSE Append(rels, o.release),
      resp |-> IF o.err # <<>> THEN Failed(o.err[1]) ELSE Responded(o.release)] :
        o \in IF render THEN RenderReleaseMock(release)
              ELSE {[release |-> release, err |-> <<>>]}}

\* an operation that leaves the list alone
Unchanged(rels, response) == [Rels |-> rels, resp |-> response]

\* an install that does not look whether the name is in use
InstallOverName(rels, options, render, chart, ns) ==
    UNION {Outcomes(rels, options, render, installed(chart, ns, options, rune)) :
              rune \in Runes}

\* InstallReleaseFromChart: (the list, the response) it may end with
Install(rels, options, render, chart, ns) ==
    IF ReleaseStatus(rels, options.instReq.Name).err = <<>>
    THEN {Unchanged(rels, Failed(ErrNameInUse))}
    ELSE UNION {Outcomes(rels, options, render, installed(chart, ns, options, rune)) :
                   rune \in Runes}

\* UpdateReleaseFromChart
Update(rels, options, render, rlsName, newChart) ==
    LET found == ReleaseContent(rels, options, rlsName)
    IN  IF found.err # <<>> THEN {Unchanged(rels, found)}
        ELSE Outcomes(rels, options, render, updated(found.release[1], newChart, options))

\* RollbackRelease: it never renders
Rollback(rels, options, rlsName) ==
    UNION {IF rel.err # <<>> THEN {Unchanged(rels, Failed(rel.err[1]))}
           ELSE UNION {LET cur == releases[1]
                           tgtv == IF options.rollbackReq.Version # 0
                                   THEN options.rollbackReq.Version
                                   ELSE cur.Version - 1
                           found == {i \in 1..Len(releases) : releases[i].Version = tgtv}
                       IN  IF found = {}
                           THEN {Unchanged(rels, Failed(ErrReleaseNotFound(rlsName, <<tgtv>>)))}
                           ELSE LET tgt == releases[CHOOSE i \in found :
                                                        \A j \in found : j <= i]
                                IN  Outcomes(rels, options, FALSE,
                                             newRelease(rlsName, cur, tgt, options)) :
                       releases \in Reverse(rel.Releases)} :
           rel \in ReleaseHistory(rels, options, rlsName)}

\* a delete that takes the last release of the name alone off the list
DeleteLatest(rels, rlsName) ==
    LET i == LastIndex(rels, rlsName, 0)
    IN  IF i = 0 THEN {Unchanged(rels, Failed(ErrReleaseNotFound(rlsName, <<>>)))}
        ELSE {[Rels |-> Without(rels, i), resp |-> Responded(rels[i])]}

\* DeleteRelease: every release of the name leaves the list, the last one is
\* returned
Delete(rels, rlsName) ==
    LET i == LastIndex(rels, rlsName, 0)
        RECURSIVE others(_)
        others(k) ==
            IF k > Len(rels) THEN <<>>
            ELSE (IF rels[k].Name = rlsName THEN <<>> ELSE <<rels[k]>>) \o others(k + 1)
    IN  IF i = 0 THEN {Unchanged(rels, Failed(ErrReleaseNotFound(rlsName, <<>>)))}
        ELSE {[Rels |-> others(1), resp |-> Responded(rels[i])]}

\* the read operations
Status(rels, rlsName) == {Unchanged(rels, ReleaseStatus(rels, rlsName))}
Content(rels, options, rlsName) == {Unchanged(rels, ReleaseContent(rels, options, rlsName))}
History(rels, options, rlsName) ==
    {Unchanged(rels, IF h.err # <<>> THEN Failed(h.err[1]) ELSE Responded(h.Releases)) :
        h \in ReleaseHistory(rels, options, rlsName)}
List(rels, options) == {Unchanged(rels, ListReleases(rels, options))}

\* what the call c may end with on a client with the list rels, the options
\* options at its start and RenderManifests = render
Ends(c, rels, options, render) ==
    LET applied == ApplyOptions(c.opts, options)
    IN  CASE c.op = "InstallReleaseFromChart" -> Install(rels, applied, render, c.chart, c.ns)
          [] c.op = "UpdateReleaseFromChart" -> Update(rels, applied, render, c.rlsName, c.chart)
          [] c.op = "RollbackRelease" -> Rollback(rels, applied, c.rlsName)
          [] c.op = "DeleteRelease" -> Delete(rels, c.rlsName)
          [] c.op = "ReleaseStatus" -> Status(rels, c.rlsName)
          [] c.op = "ReleaseContent" -> Content(rels, applied, c.rlsName)
          [] c.op = "ReleaseHistory" -> History(rels, applied, c.rlsName)
          [] c.op = "ListReleases" -> List(rels, applied)

\* the options the call c leaves in the client: ListReleases writes into a
\* copy, DeleteRelease and ReleaseStatus apply none
Leaves(c, options) ==
    IF c.op \in {"ListReleases", "DeleteRelease", "ReleaseStatus"} THEN options
    ELSE ApplyOptions(c.opts, options)

\* the call c is made on the client
Call(c) ==
    /\ \E end \in Ends(c, Rels, Opts, RenderManifests) :
          /\ Rels' = end.Rels
          /\ resp' = end.resp
    /\ Opts' = Leaves(c, Opts)
    /\ call' = <<[c EXCEPT !.Rels = Rels, !.Opts = Opts]>>
    /\ UNCHANGED <<RenderManifests, partitionVars, readyVars, waitVars, flattenVars>>

\* a call record: the operation, its arguments and options, and (filled in
\* when it is made) the list and the options of the client at its start
CallOf(op, rlsName, chart, ns, opts) ==
    [op |-> op, rlsName |-> rlsName, chart |-> chart, ns |-> ns, opts |-> opts,
     Rels |-> <<>>, Opts |-> NoOptions]

InstallReleaseFromChart(chart, ns, opts) ==
    /\ call = <<>>
    /\ Call(CallOf("InstallReleaseFromChart", <<>>, chart, ns, opts))

UpdateReleaseFromChart(rlsName, newChart, opts) ==
    /\ call = <<>>
    /\ Call(CallOf("UpdateReleaseFromChart", rlsName, newChart, <<>>, opts))

RollbackRelease(rlsName, opts) ==
    /\ call = <<>>
    /\ Call(CallOf("RollbackRelease", rlsName, NilChart, <<>>, opts))

DeleteRelease(rlsName) ==
    /\ call = <<>>
    /\ Call(CallOf("DeleteRelease", rlsName, NilChart, <<>>, <<>>))

CallReleaseStatus(rlsName) ==
    /\ call = <<>>
    /\ Call(CallOf("ReleaseStatus", rlsName, NilChart, <<>>, <<>>))

CallReleaseContent(rlsName, opts) ==
    /\ call = <<>>
    /\ Call(CallOf("ReleaseContent", rlsName, NilChart, <<>>, opts))

CallReleaseHistory(rlsName, opts) ==
    /\ call = <<>>
    /\ Call(CallOf("ReleaseHistory", rlsName, NilChart, <<>>, opts))

CallListReleases(opts) ==
    /\ call = <<>>
    /\ Call(CallOf("ListReleases", <<>>, NilChart, <<>>, opts))

\* the namespace of an install
Namespaces == {<<"kube-system">>}

\* the client a test has set up: a list of releases, the options that an
\* earlier call left and whether it renders; no call made yet
InitClient ==
    /\ Rels \in ReleaseLists
    /\ Opts \in OptionStates
    /\ RenderManifests \in BOOLEAN
    /\ call = <<>>
    /\ resp = <<>>
    /\ PartitionIdle
    /\ ReadyIdle
    /\ WaitIdle
    /\ FlattenIdle

\* one call of any operation
NextClient ==
    \/ \E chart \in Charts, ns \in Namespaces, opts \in InstallOptionLists :
          InstallReleaseFromChart(chart, ns, opts)
    \/ \E rlsName \in ReleaseNames, chart \in Charts, opts \in UpdateOptionLists :
          UpdateReleaseFromChart(rlsName, chart, opts)
    \/ \E rlsName \in ReleaseNames, opts \in RollbackOptionLists :
          RollbackRelease(rlsName, opts)
    \/ \E rlsName \in ReleaseNames : DeleteRelease(rlsName)
    \/ \E rlsName \in ReleaseNames : CallReleaseStatus(rlsName)
    \/ \E rlsName \in ReleaseNames, opts \in ContentOptionLists :
          CallReleaseContent(rlsName, opts)
    \/ \E rlsName \in ReleaseNames, opts \in HistoryOptionLists :
          CallReleaseHistory(rlsName, opts)
    \/ \E opts \in ListOptionLists : CallListReleases(opts)

SpecClient == InitClient /\ [][NextClient]_vars

\* releases in the list of a client that starts without any
MaxRunRels == 3

\* a client as FakeClient{} makes it: no release, no option set
InitClientRun ==
    /\ Rels = <<>>
    /\ Opts = NoOptions
    /\ RenderManifests = FALSE
    /\ call = <<>>
    /\ resp = <<>>
    /\ PartitionIdle
    /\ ReadyIdle
    /\ WaitIdle
    /\ FlattenIdle

\* the caller has the response and turns to its next call, while the list
\* is short of MaxRunRels releases
NextCall ==
    /\ call # <<>>
    /\ Len(Rels) < MaxRunRels
    /\ call' = <<>>
    /\ resp' = <<>>
    /\ UNCHANGED <<Rels, Opts, RenderManifests,
                   partitionVars, readyVars, waitVars, flattenVars>>

\* the release that the calls of a run are about
RunName == <<"funny-honey">>

\* call after call on one release, and installs that name none
NextClientRun ==
    \/ \E opts \in InstallOptionLists :
          InstallReleaseFromChart(EmptyChart, <<"kube-system">>, opts)
    \/ \E opts \in UpdateOptionLists : UpdateReleaseFromChart(RunName, EmptyChart, opts)
    \/ \E opts \in RollbackOptionLists : RollbackRelease(RunName, opts)
    \/ DeleteRelease(RunName)
    \/ CallReleaseStatus(RunName)
    \/ \E opts \in ContentOptionLists : CallReleaseContent(RunName, opts)
    \/ \E opts \in HistoryOptionLists : CallReleaseHistory(RunName, opts)
    \/ \E opts \in ListOptionLists : CallListReleases(opts)
    \/ NextCall

SpecClientRun == InitClientRun /\ [][NextClientRun]_vars

----------------------------------------------------------------------------
(* Claims about RollbackRelease.                                           *)

\* RollbackRelease was called and has returned
RolledBack == call # <<>> /\ call[1].op = "RollbackRelease"

\* the versions of a list of releases
VersionsOf(list) == {list[i].Version : i \in 1..Len(list)}

\* the highest of a non-empty set of versions
Highest(versions) == CHOOSE v \in versions : \A w \in versions : w <= v

\* the version a rollback on a history aims at: the version requested when
\* there is one, the current (highest) version minus one otherwise
TargetVersion(history) ==
    IF Opts.rollbackReq.Version # 0 THEN Opts.rollbackReq.Version
    ELSE Highest(VersionsOf(history)) - 1

\* the release returned is the rollback of the history to its target: the
\* name asked for, the highest version plus one, chart, config, manifest,
\* hooks and namespace of a release of the target version, status DEPLOYED
RollsBack(new, history) ==
    /\ new.Name = call[1].rlsName
    /\ new.Version = Highest(VersionsOf(history)) + 1
    /\ new.Info.Status.Code = "DEPLOYED"
    /\ \E i \in 1..Len(history) :
          /\ history[i].Version = TargetVersion(history)
          /\ new.Chart = history[i].Chart
          /\ new.Config = history[i].Config
          /\ new.Manifest = history[i].Manifest
          /\ new.Hooks = history[i].Hooks
          /\ new.Namespace = history[i].Namespace

\* C20: a rollback on a name that has releases in the list, aimed at a
\* version that one of them has (the version requested, or the highest
\* version minus one), returns no error and appends one release to the list:
\* the name asked for, the highest version plus one, chart, config, manifest,
\* hooks and namespace of the target, status DEPLOYED.
C20_RollbackAppends ==
    RolledBack =>
        LET history == Named(call[1].Rels, call[1].rlsName)
        IN  (history # <<>> /\ TargetVersion(history) \in VersionsOf(history))
                => /\ resp.err = <<>>
                   /\ Rels = Append(call[1].Rels, resp.release[1])
                   /\ RollsBack(resp.release[1], history)

\* the releases ReleaseHistory hands to the rollback under the history
\* maximum in effect: the releases of the name, or the Max added last when
\* there are more than Max > 0 of them
Considered ==
    LET all == Named(call[1].Rels, call[1].rlsName)
        m == Opts.histReq.Max
    IN  IF 0 < m /\ m < Len(all) THEN [i \in 1..m |-> all[Len(all) - m + i]]
        ELSE all

\* C20: with a history maximum in effect that is not negative, a rollback on
\* a name of which ReleaseHistory returns releases, aimed at a version that
\* one of these has (the version in effect, or their highest version minus
\* one), returns no error and a release with the name asked for, their
\* highest version plus one, chart, config, manifest, hooks and namespace of
\* the target and status DEPLOYED; this release is appended to the list
\* unless dry-run is in effect, and then the list stays as it was.
C20_RollbackReturns ==
    RolledBack =>
        ((Opts.histReq.Max >= 0 /\ Considered # <<>>
              /\ TargetVersion(Considered) \in VersionsOf(Considered))
            => /\ resp.err = <<>>
               /\ RollsBack(resp.release[1], Considered)
               /\ Rels = IF Opts.dryRun THEN call[1].Rels
                         ELSE Append(call[1].Rels, resp.release[1]))

\* the only release of the list, of version 1, rolled back to version 1: the
\* list now ends with its copy of version 2
C20_Witness ==
    /\ RolledBack
    /\ call[1].rlsName = <<"funny-honey">>
    /\ call[1].Rels = <<Revision(<<"funny-honey">>, 1)>>
    /\ Opts.rollbackReq.Version = 1
    /\ resp.err = <<>>
    /\ Len(Rels) = 2
    /\ Rels[2].Version = 2
    /\ Rels[2].Chart = Rels[1].Chart
    /\ Rels[2].Info.Status.Code # Rels[1].Info.Status.Code

----------------------------------------------------------------------------
(* Claims about the other operations of the FakeClient.                    *)

\* the operation op was called and has returned
Did(op) == call # <<>> /\ call[1].op = op

\* a release of the name is in the list
InList(rels, name) == \E i \in 1..Len(rels) : rels[i].Name = name

Latest(rels, name) ==
    rels[CHOOSE i \in 1..Len(rels) :
            /\ rels[i].Name = name
            /\ \A j \in (i + 1)..Len(rels) : rels[j].Name # name]

\* C23 as claimed: an update of a name that is in the list returns no error
\* and appends one release: the same name, the namespace of the last release
\* of the name and its version plus one; an update of a name that is not in
\* the list returns a not-found error and leaves the list as it was.
C23_UpdateAppends ==
    Did("UpdateReleaseFromChart") =>
        LET name == call[1].rlsName
        IN  IF InList(call[1].Rels, name)
            THEN /\ resp.err = <<>>
                 /\ resp.release[1].Name = name
                 /\ resp.release[1].Namespace = Latest(call[1].Rels, name).Namespace
                 /\ resp.release[1].Version = Latest(call[1].Rels, name).Version + 1
                 /\ Rels = Append(call[1].Rels, resp.release[1])
            ELSE /\ resp.err # <<>>
                 /\ resp.err[1].error = "not found"
                 /\ Rels = call[1].Rels

\* the releases of the name an update may start from: all of them, or those
\* of the content version when one is in effect
Updatable ==
    LET v == Opts.contentReq.Version
    IN  {i \in 1..Len(call[1].Rels) :
            /\ call[1].Rels[i].Name = call[1].rlsName
            /\ (v = 0 \/ call[1].Rels[i].Version = v)}

\* C23: an update starts from the release that ReleaseContent finds: the
\* last release of the name, of the content version when one is in effect.
\* When there is none it returns a not-found error and leaves the list as it
\* was.  Otherwise it fails only when the client renders manifests and the
\* rendering fails, and then leaves the list as it was; when it does not
\* fail it returns a release of the same name, of the namespace of the
\* release found and of its version plus one, and appends it, and nothing
\* else, to the list unless dry-run is in effect.
C23_UpdateOfFound ==
    Did("UpdateReleaseFromChart") =>
        IF Updatable = {}
        THEN /\ resp.err # <<>>
             /\ resp.err[1].error = "not found"
             /\ Rels = call[1].Rels
        ELSE LET found == call[1].Rels[CHOOSE i \in Updatable : \A j \in Updatable : j <= i]
             IN  /\ resp.err # <<>> => (RenderManifests /\ Rels = call[1].Rels)
                 /\ ~RenderManifests => resp.err = <<>>
                 /\ resp.err = <<>> =>
                        /\ resp.release[1].Name = call[1].rlsName
                        /\ resp.release[1].Namespace = found.Namespace
                        /\ resp.release[1].Version = found.Version + 1
                        /\ Rels = IF Opts.dryRun THEN call[1].Rels
                                  ELSE Append(call[1].Rels, resp.release[1])

\* an update of funny-honey in a list that holds its revisions 1 and 2: the
\* list ends with revision 3 in the namespace of revision 2
C23_Witness ==
    /\ Did("UpdateReleaseFromChart")
    /\ call[1].rlsName = <<"funny-honey">>
    /\ call[1].Rels = <<Revision(<<"funny-honey">>, 1), Revision(<<"funny-honey">>, 2)>>
    /\ resp.err = <<>>
    /\ Len(Rels) = 3
    /\ Rels[3].Version = 3
    /\ Rels[3].Namespace = Rels[2].Namespace
    /\ Rels[3].Chart # Rels[2].Chart

\* the response is a not-found error
NotFound == resp.err # <<>> /\ resp.err[1].error = "not found"

\* C24: a rollback returns a not-found error and leaves the list as it was
\* when the list holds no release of the name, and when no release that it
\* considers has the target version (the version requested, or the highest
\* version considered minus one); and a rollback that returns an error
\* leaves the list as it was.
C24_RollbackNotFound ==
    Did("RollbackRelease") =>
        /\ Named(call[1].Rels, call[1].rlsName) = <<>> =>
              NotFound /\ Rels = call[1].Rels
        /\ (Considered # <<>> /\ TargetVersion(Considered) \notin VersionsOf(Considered)) =>
              NotFound /\ Rels = call[1].Rels
        /\ resp.err # <<>> => Rels = call[1].Rels

\* what a delete of a name that is in the list does: every release of the
\* name is gone, the others are left in their order, and the last release of
\* the name is returned; of a name that is not in the list: a not-found
\* error, and the list is as it was
Deletes ==
    IF InList(call[1].Rels, call[1].rlsName)
    THEN /\ resp.err = <<>>
         /\ resp.release[1] = Latest(call[1].Rels, call[1].rlsName)
         /\ Rels = SelectSeq(call[1].Rels, LAMBDA r : r.Name # call[1].rlsName)
    ELSE NotFound /\ Rels = call[1].Rels

\* ReleaseStatus and ReleaseContent of the name, called now with any options,
\* return a not-found error
StatusAndContentNotFound(name) ==
    /\ ReleaseStatus(Rels, name).err # <<>>
    /\ ReleaseStatus(Rels, name).err[1].error = "not found"
    /\ \A opts \in ContentOptionLists :
          LET found == ReleaseContent(Rels, ApplyOptions(opts, Opts), name)
          IN  found.err # <<>> /\ found.err[1].error = "not found"

\* ReleaseHistory of the name, called now with the options opts, returns a
\* not-found error
HistoryNotFound(name, opts) ==
    \A h \in ReleaseHistory(Rels, ApplyOptions(opts, Opts), name) :
        h.err # <<>> /\ h.err[1].error = "not found"

Writers == {"InstallReleaseFromChart", "UpdateReleaseFromChart", "RollbackRelease"}
Readers == {"ListReleases", "ReleaseStatus", "ReleaseContent", "ReleaseHistory"}

\* the responses the call made would give on the same client were dry-run
\* not in effect
WithoutDryRun ==
    LET wet == [Opts EXCEPT !.dryRun = FALSE]
        c == call[1]
        ends == CASE c.op = "InstallReleaseFromChart" ->
                        Install(c.Rels, wet, RenderManifests, c.chart, c.ns)
                  [] c.op = "UpdateReleaseFromChart" ->
                        Update(c.Rels, wet, RenderManifests, c.rlsName, c.chart)
                  [] c.op = "RollbackRelease" -> Rollback(c.Rels, wet, c.rlsName)
    IN  {e.resp : e \in ends}

\* C26: with dry-run in effect an install, an update and a rollback leave the
\* list as it was and return what they may return without dry-run: the
\* release they would append; and a read operation leaves the list as it was.
C26_DryRunAndReadsLeaveList ==
    /\ (call # <<>> /\ call[1].op \in Writers /\ Opts.dryRun) =>
          /\ Rels = call[1].Rels
          /\ resp \in WithoutDryRun
    /\ (call # <<>> /\ call[1].op \in Readers) => Rels = call[1].Rels

\* an update with dry-run in effect on a list that holds the release: the
\* release of the next version is returned and the list is as it was
C26_Witness ==
    /\ Did("UpdateReleaseFromChart")
    /\ Opts.dryRun
    /\ call[1].Rels = <<Revision(<<"funny-honey">>, 1)>>
    /\ resp.err = <<>>
    /\ resp.release[1].Name = <<"funny-honey">>
    /\ resp.release[1].Version = 2
    /\ Rels = call[1].Rels

\* C27: a call ends as it would on a client that holds the same list and no
\* option of an earlier call: the list it leaves and the response it gives
\* are among those it may leave and give when the options of the client are
\* the zero value before the options of the call are applied.
C27_OptionsOfTheCallAlone ==
    call # <<>> =>
        [Rels |-> Rels, resp |-> resp]
            \in Ends(call[1], call[1].Rels, NoOptions, RenderManifests)

\* C28: in the list of a client that began without releases no two releases
\* have the same name and the same version, and of two releases of one name
\* the one added later has the higher version.
C28_VersionsIncrease ==
    \A i, j \in 1..Len(Rels) :
        (i < j /\ Rels[i].Name = Rels[j].Name) => Rels[i].Version < Rels[j].Version

\* the number of times x is in the list
Count(list, x) == Cardinality({i \in 1..Len(list) : list[i] = x})

\* the two lists hold the same releases, each as often
SameReleases(a, b) ==
    /\ Len(a) = Len(b)
    /\ \A i \in 1..Len(a) : Count(a, a[i]) = Count(b, a[i])

\* the releases of the requested name that ReleaseHistory is to return with
\* the history maximum m: all, or the m added last
Window(m) ==
    LET all == Named(call[1].Rels, call[1].rlsName)
    IN  IF m = 0 \/ m >= Len(all) THEN all
        ELSE SubSeq(all, Len(all) - m + 1, Len(all))

\* the history returned holds the releases of Window(m), all of the
\* requested name, in descending order of Version
ReturnsWindow(m) ==
    /\ resp.err = <<>>
    /\ SameReleases(resp.release[1], Window(m))
    /\ \A i \in 1..Len(resp.release[1]) : resp.release[1][i].Name = call[1].rlsName
    /\ \A i, j \in 1..Len(resp.release[1]) :
          i < j => resp.release[1][i].Version >= resp.release[1][j].Version

\* C29 as claimed: ReleaseHistory returns an error when Max is negative, a
\* not-found error when no release has the name, and otherwise the releases
\* of the name only, in descending order of revision, all of them or the Max
\* added last.
C29_HistoryWindow ==
    Did("ReleaseHistory") =>
        /\ Opts.histReq.Max < 0 => resp.err # <<>>
        /\ ~InList(call[1].Rels, call[1].rlsName) => NotFound
        /\ (Opts.histReq.Max >= 0 /\ InList(call[1].Rels, call[1].rlsName)) =>
              ReturnsWindow(Opts.histReq.Max)

\* C29: ReleaseHistory returns the error of a negative maximum when Max is
\* negative, whether a release has the name or not; when Max is not negative
\* it returns a not-found error when no release has the name, and otherwise
\* the releases of the name only, in descending order of revision, all of
\* them when Max is 0 or at least their number and the Max added last when
\* 0 < Max < their number.
C29_HistoryWindowMaxFirst ==
    Did("ReleaseHistory") =>
        IF Opts.histReq.Max < 0 THEN resp.err = <<ErrHistoryMax>>
        ELSE IF ~InList(call[1].Rels, call[1].rlsName) THEN NotFound
        ELSE ReturnsWindow(Opts.histReq.Max)

\* a history of at most one release asked of a list with two releases of the
\* name, the older one added last: the release added last is returned alone
C29_Witness ==
    /\ Did("ReleaseHistory")
    /\ Opts.histReq.Max = 1
    /\ call[1].rlsName = <<"funny-honey">>
    /\ call[1].Rels = <<Revision(<<"funny-honey">>, 2), Revision(<<"funny-honey">>, 1)>>
    /\ resp.err = <<>>
    /\ resp.release[1] = <<Revision(<<"funny-honey">>, 1)>>

====
